---- MODULE Spec2Model ----
(***************************************************************************)
(* A model of the execution core of caffe2:                                *)
(*   - AsyncDAGNet (core/net_gpu.cc): events, streams, RunAt and Run;      *)
(*   - the plan engine (core/workspace.cc): ExecuteStepRecursive.          *)
(*   - the dataset operators (operators/dataset_ops.cc): the tree cursor.  *)
(* Each part has its own specification; the variables of the other parts   *)
(* stay at their initial value.                                            *)
(***************************************************************************)
EXTENDS Integers, Sequences, FiniteSets, TLC

(***************************************************************************)
(* Bounds of the model.                                                    *)
(***************************************************************************)
NumOps == 3
NumWorkers == 2
MaxCalls == 2

\* gpu_id_ of a stream or an event that is not bound to a CUDA device.
CPU == -1
Devices == {CPU, 0, 1}

Ops == 1..NumOps
\* Some worker thread runs each RunAt; a running call is named by its chain.

VARIABLES
    \* ---- AsyncDAGNet ----
    dev,            \* device option of each operator (CPU or a gpu id)
    parents,        \* operator_nodes_[i].parents_
    eventRecorded,  \* AsyncDAGNet::eventRecorded_
    outstanding,    \* events_[i]->outstanding_
    hostpc,         \* position of the thread that calls Run
    result,         \* what the last Run returned ("none" while running)
    success,        \* DAGNetBase::success_
    queue,          \* DAGNetBase job queue (chains, named by their first op)
    parentCount,    \* operator_nodes_[i].runtime_parent_count_
    remaining,      \* DAGNetBase::remaining_ops_
    wk,             \* per chain (named by its first op): position inside RunAt
    calls,          \* number of direct RunAt calls of the current Run
    nrec,           \* history: Event::record calls completed in this Run
    failed,         \* history: an operator returned false or threw in this Run
    synced          \* history: the events the host waited on in the last Run

netVars == <<dev, parents, eventRecorded, outstanding, hostpc, result,
             success, queue, parentCount, remaining, wk, calls,
             nrec, failed, synced>>

VARIABLES
    \* ---- plan engine ----
    plan,           \* the ExecutionStep tree: a configuration per step
    fr,             \* per step: the activation of ExecuteStepRecursive
    blobs,          \* the should_stop blobs of the workspace
    extStop,        \* the caller's shouldContinue has turned false
    handleExc,      \* FLAGS_caffe2_handle_executor_threads_exceptions
    nextSubstep,    \* next_substep of the concurrent iteration
    gotFailure,     \* got_failure of the concurrent iteration
    firstException, \* first_exception of the concurrent iteration
    wkr,            \* the worker threads of the concurrent iteration
    aborted,        \* an exception left a worker thread: the process died
    rep             \* the Reporter of the root step and its thread

planVars == <<plan, fr, blobs, extStop, handleExc, nextSubstep, gotFailure,
              firstException, wkr, aborted, rep>>

VARIABLES
    \* ---- dataset cursor (operators/dataset_ops.cc) ----
    data,           \* the dataset: fields a, b:lengths and b:values
    perm,           \* the idx blob of ReadRandomBatch
    offsets,        \* TreeCursor::offsets
    mutex,          \* TreeCursor::mutex_: 0, or the thread that holds it
    th,             \* per thread: the operator it runs and its locals
    taken,          \* number of cursor operators started
    fresh,          \* history: no read since the cursor was created or reset
    wasReset,       \* history: a ResetCursor has run
    batches,        \* history: the batches returned so far
    crashed         \* a CHECK failed: the process died

cursorVars == <<data, perm, offsets, mutex, th, taken, fresh, wasReset,
                batches, crashed>>

VARIABLES
    \* ---- Append and AtomicAppend (operators/dataset_ops.cc) ----
    fields,         \* the destination tensors, one per field
    amutex,         \* the mutex blob of AtomicAppend: 0, or its holder
    ath,            \* per thread: its AtomicAppend call and its locals
    appends,        \* number of append calls started
    done,           \* history: the calls that copied, in the order they did
    lastAppend      \* history: the last Append call

appendVars == <<fields, amutex, ath, appends, done, lastAppend>>

VARIABLES
    \* ---- SortAndShuffle (operators/dataset_ops.cc) ----
    shuf            \* the run of SortAndShuffle: its position and its locals

VARIABLES
    \* ---- Workspace blobs (core/workspace.cc) ----
    blobMap,        \* blob_map_ of every workspace: name -> blob (0: none)
    nblobs,         \* number of Blob objects allocated so far
    creates,        \* number of CreateBlob calls
    lastCreate,     \* history: the last CreateBlob call and what it returned
    firstRet,       \* history: what the first CreateBlob(name) returned
    made,           \* history: the (workspace, name) pairs that allocated a blob
    netMap,         \* net_map_ of every workspace: name -> net (0: no entry)
    nnets,          \* number of nets constructed so far
    cn,             \* the CreateNet call in progress
    lastNet         \* history: the last CreateNet call and what it returned

wsVars == <<blobMap, nblobs, creates, lastCreate, firstRet, made, netMap,
            nnets, cn, lastNet>>

VARIABLES
    \* ---- Registry (core/registry.h) ----
    registry,       \* registry_: key -> creator (0: no entry)
    helpMsg,        \* help_message_: key -> help message (0: no entry)
    rmutex,         \* register_mutex_: 0, or the thread that holds it
    rth,            \* per thread: its Register call
    regs,           \* number of Register calls started
    exited,         \* std::exit(1) was called
    torn,           \* an unsynchronized write damaged help_message_
    firstReg,       \* history: the creator first registered under a key
    wins            \* history: per key, the Register calls that stored

regVars == <<registry, helpMsg, rmutex, rth, regs, exited, torn, firstReg,
             wins>>

VARIABLES
    \* ---- Operator schema (core/operator_schema.cc) ----
    schema,         \* the OpSchema: arity range and in-place pairs
    vdef,           \* the OperatorDef of the last Verify call
    verdict         \* what that call did: "none", "pass", "reject", "crash"

schemaVars == <<schema, vdef, verdict>>

VARIABLES
    \* ---- Recurrent network (operators/recurrent_network_op.h) ----
    rnn,            \* the forward run: position, seqLen, t, arguments
    stepWs,         \* scratch->stepWorkspaces: per index, what it holds
    invoked,        \* history: the step-net invocations of the run
    rruns           \* number of runs started

rnnVars == <<rnn, stepWs, invoked, rruns>>

VARIABLES
    \* ---- Load and Save (operators/load_save_op.h) ----
    db,             \* the records of the database, in cursor order
    fromSave,       \* the database was written by Save
    saved,          \* history: the blobs Save was given, by name
    dest,           \* the blobs of the workspace that Load writes, by name
    ld              \* the Load run: position, cursor, blobSizes, loaded

lsVars == <<db, fromSave, saved, dest, ld>>

VARIABLES
    \* ---- plan runner (binaries/run_plan_mpi.cc) ----
    mainpc,         \* position of main
    runResult,      \* what RunPlan did: "true", "false", "throw"
    exitCode        \* how the process ended: "none", "zero", "abort"

mainVars == <<mainpc, runResult, exitCode>>

dataVars ==
    <<cursorVars, appendVars, shuf, wsVars, regVars, schemaVars, rnnVars,
      lsVars, mainVars>>

nonNetVars == <<planVars, dataVars>>
nonPlanVars == <<netVars, dataVars>>
nonCursorVars ==
    <<netVars, planVars, appendVars, shuf, wsVars, regVars, schemaVars,
      rnnVars, lsVars, mainVars>>
nonAppendVars ==
    <<netVars, planVars, cursorVars, shuf, wsVars, regVars, schemaVars,
      rnnVars, lsVars, mainVars>>
nonShuffleVars ==
    <<netVars, planVars, cursorVars, appendVars, wsVars, regVars,
      schemaVars, rnnVars, lsVars, mainVars>>
nonWsVars ==
    <<netVars, planVars, cursorVars, appendVars, shuf, regVars, schemaVars,
      rnnVars, lsVars, mainVars>>
nonRegVars ==
    <<netVars, planVars, cursorVars, appendVars, shuf, wsVars, schemaVars,
      rnnVars, lsVars, mainVars>>
nonSchemaVars ==
    <<netVars, planVars, cursorVars, appendVars, shuf, wsVars, regVars,
      rnnVars, lsVars, mainVars>>
nonRnnVars ==
    <<netVars, planVars, cursorVars, appendVars, shuf, wsVars, regVars,
      schemaVars, lsVars, mainVars>>
nonLsVars ==
    <<netVars, planVars, cursorVars, appendVars, shuf, wsVars, regVars,
      schemaVars, rnnVars, mainVars>>
nonMainVars ==
    <<netVars, planVars, cursorVars, appendVars, shuf, wsVars, regVars,
      schemaVars, rnnVars, lsVars>>

vars == <<netVars, planVars, dataVars>>

(***************************************************************************)
(* The DAG and its chains (DAGNetBase, built at construction).             *)
(***************************************************************************)
Children(u) == {c \in Ops : u \in parents[c]}

\* An operator extends the chain of its parent when that parent is its only
\* parent, is on the same device and has no other child.
ExtendsParent(c) ==
    /\ Cardinality(parents[c]) = 1
    /\ \A p \in parents[c] : dev[p] = dev[c] /\ Children(p) = {c}

ChainStarts == {v \in Ops : ~ExtendsParent(v)}

RECURSIVE ChainFrom(_)
ChainFrom(v) ==
    LET next == {c \in Children(v) : ExtendsParent(c)}
    IN  IF next = {} THEN <<v>>
        ELSE <<v>> \o ChainFrom(CHOOSE c \in next : TRUE)

Front(chain) == chain[1]
Back(chain) == chain[Len(chain)]

\* Ascending enumeration of a set of operators (the order of parents_).
RECURSIVE SortedSeq(_)
SortedSeq(S) ==
    IF S = {} THEN <<>>
    ELSE LET m == CHOOSE x \in S : \A y \in S : x <= y
         IN  <<m>> \o SortedSeq(S \ {m})

(***************************************************************************)
(* internal::Stream and internal::Event.                                   *)
(***************************************************************************)
\* A stream built from a device option: stream_ is null for a CPU device.
StreamIsNull(d) == d = CPU
\* Event::Event: event_ is created only for a CUDA device.
EventIsNull(e) == dev[e] = CPU

\* Stream::wait(event): the flag is cleared first, whatever the devices.
StreamWait(out, e) == [out EXCEPT ![e] = FALSE]

RECURSIVE WaitAll(_, _)
WaitAll(out, es) ==
    IF es = <<>> THEN out ELSE WaitAll(StreamWait(out, Head(es)), Tail(es))

\* Event::record(stream) of event e on a stream of device d.
\* Returns the outstanding flags and whether the call threw.
EventRecord(out, e, d) ==
    LET o1 == IF out[e] THEN StreamWait(out, e) ELSE out
    IN  IF o1[e] THEN [out |-> o1, threw |-> TRUE, issued |-> FALSE]
        ELSE IF d # dev[e] THEN [out |-> o1, threw |-> TRUE, issued |-> FALSE]
        ELSE IF StreamIsNull(d)
             THEN [out |-> o1, threw |-> ~EventIsNull(e), issued |-> FALSE]
        ELSE IF EventIsNull(e) THEN [out |-> o1, threw |-> TRUE, issued |-> FALSE]
        ELSE [out |-> [o1 EXCEPT ![e] = TRUE], threw |-> FALSE, issued |-> TRUE]

NotRunning == [pc |-> "idle", i |-> 0, success |-> TRUE]

StartRunAt == [pc |-> "check", i |-> 0, success |-> TRUE]

Running == {v \in Ops : wk[v].pc # "idle"}

(***************************************************************************)
(* AsyncDAGNet::RunAt on the chain that starts at w, one step per phase.    *)
(***************************************************************************)
\* Faulty variant of ParentRecorded: the enforce is dropped.
ParentRecordedAlways(chain) == TRUE

\* The enforce of lines 170-175.
ParentRecorded(chain) ==
    \/ parents[Front(chain)] = {}
    \/ \E p \in parents[Front(chain)] : eventRecorded[p]

RunAtCheck(w) ==
    /\ UNCHANGED nonNetVars
    /\ wk[w].pc = "check"
    /\ wk' = [wk EXCEPT ![w].pc =
                IF ChainFrom(w) # <<>> /\ ParentRecorded(ChainFrom(w))
                THEN "wait" ELSE "throw"]
    /\ UNCHANGED <<dev, parents, eventRecorded, outstanding, hostpc, result,
                   success, queue, parentCount, remaining, calls,
                   nrec, failed, synced>>

\* Faulty variant of RunAtWait: the operators start without the waits.
RunAtWaitNone(w) ==
    /\ UNCHANGED nonNetVars
    /\ wk[w].pc = "wait"
    /\ wk' = [wk EXCEPT ![w].pc = "ops", ![w].i = 1]
    /\ UNCHANGED <<dev, parents, eventRecorded, outstanding, hostpc, result,
                   success, queue, parentCount, remaining, calls,
                   nrec, failed, synced>>

\* Lines 177-181: the stream of the chain waits on the event of every parent.
RunAtWait(w) ==
    /\ UNCHANGED nonNetVars
    /\ wk[w].pc = "wait"
    /\ outstanding' = WaitAll(outstanding, SortedSeq(parents[Front(ChainFrom(w))]))
    /\ wk' = [wk EXCEPT ![w].pc = "ops", ![w].i = 1]
    /\ UNCHANGED <<dev, parents, eventRecorded, hostpc, result,
                   success, queue, parentCount, remaining, calls,
                   nrec, failed, synced>>

\* Faulty variant of AndSuccess: the result of the last operator overwrites
\* the results before it (success = ... instead of success &= ...).
OverwriteSuccess(s, r) == r

\* success &= operator_->RunAsync(): a false result does not stop the chain.
AndSuccess(s, r) == s /\ r

\* Lines 184-188, one operator of the chain per step.
RunAtOp(w) ==
    /\ UNCHANGED nonNetVars
    /\ wk[w].pc = "ops"
    /\ \E r \in {"ok", "false", "throw"} :
         LET c == ChainFrom(w)
             i == wk[w].i
         IN  /\ failed' = (failed \/ r # "ok")
             /\ wk' = [wk EXCEPT
                   ![w].pc = IF r = "throw" THEN "throw"
                             ELSE IF i = Len(c) THEN "record" ELSE "ops",
                   ![w].i = i + 1,
                   ![w].success = IF r = "throw" THEN wk[w].success
                                  ELSE AndSuccess(wk[w].success, r = "ok")]
    /\ UNCHANGED <<dev, parents, eventRecorded, outstanding, hostpc, result,
                   success, queue, parentCount, remaining, calls,
                   nrec, synced>>

\* Faulty variant of AlreadyRecorded: the enforce is dropped.
AlreadyRecordedNever(sink) == FALSE

\* The enforce of lines 196-200.
AlreadyRecorded(sink) == eventRecorded[sink]

\* Faulty variant of RunAtRecord: the sink is marked as recorded but
\* Event::record is never called.
RunAtRecordNoEvent(w) ==
    /\ UNCHANGED nonNetVars
    /\ wk[w].pc = "record"
    /\ IF AlreadyRecorded(Back(ChainFrom(w)))
       THEN /\ wk' = [wk EXCEPT ![w].pc = "throw"]
            /\ UNCHANGED eventRecorded
       ELSE /\ wk' = [wk EXCEPT ![w].pc = "ret"]
            /\ eventRecorded' = [eventRecorded EXCEPT ![Back(ChainFrom(w))] = TRUE]
    /\ UNCHANGED <<dev, parents, outstanding, hostpc, result,
                   success, queue, parentCount, remaining, calls,
                   nrec, failed, synced>>

\* Faulty variant of RunAtRecord: the event of a sink without a consumer is
\* not recorded.
RunAtRecordIfConsumer(w) ==
    /\ UNCHANGED nonNetVars
    /\ wk[w].pc = "record"
    /\ LET c == ChainFrom(w)
           sink == Back(c)
           rec == IF Children(sink) = {}
                  THEN [out |-> outstanding, threw |-> FALSE, issued |-> FALSE]
                  ELSE EventRecord(outstanding, sink, dev[Front(c)])
       IN  /\ outstanding' = rec.out
           /\ nrec' = IF rec.threw \/ Children(sink) = {} THEN nrec
                      ELSE [nrec EXCEPT ![sink] = @ + 1]
           /\ IF rec.threw \/ AlreadyRecorded(sink)
              THEN /\ wk' = [wk EXCEPT ![w].pc = "throw"]
                   /\ UNCHANGED eventRecorded
              ELSE /\ wk' = [wk EXCEPT ![w].pc = "ret"]
                   /\ eventRecorded' = [eventRecorded EXCEPT ![sink] = TRUE]
    /\ UNCHANGED <<dev, parents, hostpc, result,
                   success, queue, parentCount, remaining, calls,
                   failed, synced>>

\* Lines 190-202: record the event of the sink, then the enforce on
\* eventRecorded_, then the mark.
RunAtRecord(w) ==
    /\ UNCHANGED nonNetVars
    /\ wk[w].pc = "record"
    /\ LET c == ChainFrom(w)
           sink == Back(c)
           rec == EventRecord(outstanding, sink, dev[Front(c)])
       IN  /\ outstanding' = rec.out
           /\ nrec' = IF rec.threw THEN nrec ELSE [nrec EXCEPT ![sink] = @ + 1]
           /\ IF rec.threw \/ AlreadyRecorded(sink)
              THEN /\ wk' = [wk EXCEPT ![w].pc = "throw"]
                   /\ UNCHANGED eventRecorded
              ELSE /\ wk' = [wk EXCEPT ![w].pc = "ret"]
                   /\ eventRecorded' = [eventRecorded EXCEPT ![sink] = TRUE]
    /\ UNCHANGED <<dev, parents, hostpc, result,
                   success, queue, parentCount, remaining, calls,
                   failed, synced>>

(***************************************************************************)
(* AsyncDAGNet::Run on the host thread.                                    *)
(***************************************************************************)
\* Line 207, then the start of DAGNetBase::Run.
RunBegin ==
    /\ UNCHANGED nonNetVars
    /\ hostpc = "idle"
    /\ eventRecorded' = [i \in Ops |-> FALSE]
    /\ parentCount' = [i \in Ops |-> Cardinality(parents[i])]
    /\ remaining' = NumOps
    /\ success' = TRUE
    /\ queue' = {v \in ChainStarts : parents[v] = {}}
    /\ hostpc' = "dag"
    /\ result' = "none"
    /\ calls' = 0
    /\ nrec' = [i \in Ops |-> 0]
    /\ failed' = FALSE
    /\ synced' = {}
    /\ UNCHANGED <<dev, parents, outstanding, wk>>

\* Faulty variant of HostSync: the loop stops one event short.
HostSyncSkipLast(out) ==
    [e \in Ops |-> IF out[e] /\ e < NumOps THEN StreamWait(out, e)[e] ELSE out[e]]

\* Lines 211-224: the host waits on every outstanding event.
HostSync(out) ==
    [e \in Ops |-> IF out[e] THEN StreamWait(out, e)[e] ELSE out[e]]

\* Lines 209-225, from the return of DAGNetBase::Run on.
RunSync ==
    /\ UNCHANGED nonNetVars
    /\ hostpc = "dag"
    /\ outstanding' = HostSync(outstanding)
    /\ synced' = {e \in Ops : outstanding[e]}
    /\ result' = IF success THEN "true" ELSE "false"
    /\ hostpc' = "idle"
    /\ UNCHANGED <<dev, parents, eventRecorded, success, queue, parentCount,
                   remaining, wk, calls, nrec, failed>>

(***************************************************************************)
(* DAGNetBase: the worker loop around RunAt.                               *)
(***************************************************************************)
\* An idle worker takes the ready chain v from the job queue.
Pop(v) ==
    /\ UNCHANGED nonNetVars
    /\ hostpc = "dag"
    /\ success
    /\ Cardinality(Running) < NumWorkers
    /\ v \in queue
    /\ queue' = queue \ {v}
    /\ wk' = [wk EXCEPT ![v] = StartRunAt]
    /\ UNCHANGED <<dev, parents, eventRecorded, outstanding, hostpc, result,
                   success, parentCount, remaining, calls,
                   nrec, failed, synced>>

RECURSIVE ChildrenOfChain(_)
ChildrenOfChain(c) ==
    IF c = <<>> THEN <<>>
    ELSE SortedSeq(Children(Head(c))) \o ChildrenOfChain(Tail(c))

RECURSIVE Decrement(_, _)
Decrement(cnt, cs) ==
    IF cs = <<>> THEN cnt
    ELSE Decrement([cnt EXCEPT ![Head(cs)] = @ - 1], Tail(cs))

\* After RunAt: the counts of the children drop, the failure flag is set when
\* the chain failed or threw, and the chains that became ready are queued.
WorkerFinish(w) ==
    /\ UNCHANGED nonNetVars
    /\ hostpc = "dag"
    /\ wk[w].pc \in {"ret", "throw"}
    /\ LET c == ChainFrom(w)
           ok == wk[w].pc = "ret" /\ wk[w].success
           cnt == Decrement(parentCount, ChildrenOfChain(c))
           ready == {v \in ChainStarts :
                       cnt[v] = 0 /\ parentCount[v] > 0}
       IN  /\ parentCount' = cnt
           /\ remaining' = remaining - Len(c)
           /\ success' = (success /\ ok)
           /\ queue' = IF success /\ ok THEN queue \cup ready ELSE {}
    /\ wk' = [wk EXCEPT ![w] = NotRunning]
    /\ UNCHANGED <<dev, parents, eventRecorded, outstanding, hostpc, result,
                   calls, nrec, failed, synced>>

\* DAGNetBase::Run returns when every operator ran or a chain failed, with
\* no worker left inside RunAt.
BaseRunDone ==
    /\ Running = {}
    /\ remaining = 0 \/ ~success

RunReturn == BaseRunDone /\ RunSync

(***************************************************************************)
(* An unconstrained scheduler: RunAt is called on any chain, any number of *)
(* times, one call at a time.                                              *)
(***************************************************************************)
CallRunAt(v) ==
    /\ UNCHANGED nonNetVars
    /\ hostpc = "dag"
    /\ Running = {}
    /\ calls < MaxCalls
    /\ v \in ChainStarts
    /\ wk' = [wk EXCEPT ![v] = StartRunAt]
    /\ calls' = calls + 1
    /\ UNCHANGED <<dev, parents, eventRecorded, outstanding, hostpc, result,
                   success, queue, parentCount, remaining,
                   nrec, failed, synced>>

CallReturn(v) ==
    /\ UNCHANGED nonNetVars
    /\ hostpc = "dag"
    /\ wk[v].pc \in {"ret", "throw"}
    /\ success' = (success /\ wk[v].pc = "ret" /\ wk[v].success)
    /\ wk' = [wk EXCEPT ![v] = NotRunning]
    /\ UNCHANGED <<dev, parents, eventRecorded, outstanding, hostpc, result,
                   queue, parentCount, remaining, calls,
                   nrec, failed, synced>>

AnyRunReturn == Running = {} /\ RunSync

(***************************************************************************)
(* The plan engine: steps, their configuration and the workspace.          *)
(***************************************************************************)
MaxIter == 2

Steps == {"R", "A", "B"}
Blobs == {"s1", "s2"}
\* The nets of net_map_; the step of a plan may name a net that is not there.
NetMap == {"n1", "n2"}

\* A step: network[], substep[], num_iter, should_stop_blob, only_once and
\* concurrent_substeps (stop = "" and once = "unset" stand for unset fields).
Cfg(nets, subs, hasNum, num, stop, once, conc) ==
    [nets |-> nets, subs |-> subs, hasNum |-> hasNum, num |-> num,
     stop |-> stop, once |-> once, conc |-> conc]

NoStep == Cfg(<<>>, <<>>, FALSE, 0, "", "unset", FALSE)

\* Every setting of the fields that control the iteration.
Controls ==
    {c \in [hasNum : BOOLEAN, num : 0..MaxIter, stop : {""} \cup Blobs,
            once : {"unset", "true", "false"}] : c.hasNum \/ c.num = 0}

\* The plans with a single step, in every configuration.
LeafPlans ==
    {[s \in Steps |->
        IF s = "R" THEN Cfg(n, <<>>, c.hasNum, c.num, c.stop, c.once, FALSE)
        ELSE NoStep] :
     n \in {<<>>, <<"n1">>, <<"n1", "n2">>, <<"nx">>}, c \in Controls}

RootControls ==
    {c \in Controls :
        /\ c.num \in {0, MaxIter}
        /\ c.stop \in {"", "s1"}
        /\ c.once # "false"
        /\ c.once = "true" => c.stop # ""}

SubControls ==
    {c \in Controls : c.num \in {0, MaxIter} /\ c.once = "unset" /\ ~(c.hasNum /\ c.stop # "")}

\* The plans with substeps A and B under the root R.
TreePlans ==
    {[s \in Steps |->
        CASE s = "R" -> Cfg(rn, rs, rc.hasNum, rc.num, rc.stop, rc.once, conc)
          [] s = "A" -> Cfg(an, <<>>, ac.hasNum, ac.num, ac.stop, "unset", FALSE)
          [] s = "B" -> Cfg(<<"n1">>, <<>>, bc, IF bc THEN MaxIter ELSE 0, "", "unset", FALSE)] :
     rn \in {<<>>}, rs \in {<<"A">>, <<"A", "B">>}, rc \in RootControls,
     conc \in {FALSE}, an \in {<<"n1">>, <<"n1", "n2">>}, ac \in SubControls,
     bc \in BOOLEAN}

ConcRootControls ==
    {c \in RootControls : (c.hasNum => c.num = MaxIter) /\ (c.stop # "" => c.once = "true")}

ConcSubControls ==
    {c \in SubControls : ~c.hasNum /\ c.stop = ""}

\* The plans whose root runs A and B on worker threads.
ConcPlans ==
    {[s \in Steps |->
        CASE s = "R" -> Cfg(<<>>, <<"A", "B">>, rc.hasNum, rc.num, rc.stop, rc.once, TRUE)
          [] s = "A" -> Cfg(an, <<>>, FALSE, 0, ac.stop, "unset", FALSE)
          [] s = "B" -> Cfg(<<"n1">>, <<>>, bc, IF bc THEN MaxIter ELSE 0, "", "unset", FALSE)] :
     rc \in ConcRootControls, an \in {<<"n1">>, <<"n1", "n2">>},
     ac \in ConcSubControls, bc \in BOOLEAN}

\* The plans whose step has both networks and substeps.
MixedPlans ==
    {[s \in Steps |->
        CASE s = "R" -> Cfg(<<"n1">>, <<"A">>, c.hasNum, c.num, c.stop, c.once, FALSE)
          [] s = "A" -> Cfg(<<"n1">>, <<>>, FALSE, 0, "", "unset", FALSE)
          [] s = "B" -> NoStep] : c \in RootControls}

Plans == LeafPlans \cup TreePlans \cup MixedPlans \cup ConcPlans

Parent(s) == "R"

\* line 341: the substeps of p run on worker threads.
ConcurrentMode(p) == plan[p].conc /\ Len(plan[p].subs) > 1

\* getShouldStop: a missing or uninitialized blob reads false.
GetShouldStopBlob(b) == b # "" /\ blobs[b] = "true"

GetShouldStop(s) == GetShouldStopBlob(plan[s].stop)

\* Faulty variant of ContinueByIter: one iteration too many.
ContinueByIterInclusive(i, iterations) == i <= iterations

\* line 68: the test of a step controlled by its iteration count.
ContinueByIter(i, iterations) == i < iterations

\* line 65.
Iterations(c) == IF c.hasNum THEN c.num ELSE 1

\* Faulty variant of NumIterWithStopBlob: the enforce is dropped.
NumIterWithStopBlobAllowed(c) == FALSE

\* lines 57-61: what the first enforce of getContinuationTest rejects.
NumIterWithStopBlob(c) == c.stop # "" /\ c.hasNum

\* Faulty variant of NetShouldContinue: the test reads the stop blob.
NetShouldContinueReadsBlob(c, i) ==
    IF c.stop = "" THEN ContinueByIter(i, Iterations(c))
    ELSE ~GetShouldStopBlob(c.stop) /\ (c.once = "true" => i = 0)

\* lines 63-78: the test that getContinuationTest returns.
NetShouldContinue(c, i) ==
    IF c.stop = "" THEN ContinueByIter(i, Iterations(c))
    ELSE IF c.once = "true" THEN i = 0
    ELSE TRUE

\* The externalShouldContinue handed to the activation of s: the one of the
\* caller of the plan, and got_failure for a substep run by a worker.
ExternalShouldContinue(s) ==
    /\ ~extStop
    /\ s # "R" /\ ConcurrentMode(Parent(s)) => ~gotFailure

\* The iteration counter; past MaxIter its value no longer matters.
Inc(i) == IF i <= MaxIter THEN i + 1 ELSE i

TraceCap == 2 * MaxIter + 1
AppendCap(t, x) == IF Len(t) < TraceCap THEN Append(t, x) ELSE t

\* An activation.  trace, extFalse, stopAtEntry, firstCheck and why are
\* history: what ran, whether the external test was seen false, what the
\* stop blob read at entry and at the first CHECK_SHOULD_STOP, and why the
\* step returned.
Off ==
    [pc |-> "off", iter |-> 0, idx |-> 0, res |-> "none", trace |-> <<>>,
     extFalse |-> FALSE, stopAtEntry |-> FALSE, firstCheck |-> "none",
     sawStop |-> FALSE, why |-> "none"]

Entering == [Off EXCEPT !.pc = "enter"]

Done(f, r, why) == [f EXCEPT !.pc = "done", !.res = r, !.why = why]

(***************************************************************************)
(* Workspace::ExecuteStepRecursive, the activation of step s.              *)
(***************************************************************************)
\* lines 310-338, and for a step of networks the lookup of lines 417-425.
Enter(s) ==
    /\ UNCHANGED <<nonPlanVars, rep>>
    /\ ~aborted
    /\ fr[s].pc = "enter"
    /\ LET c == plan[s]
           f == [fr[s] EXCEPT !.stopAtEntry = GetShouldStop(s)]
       IN  fr' = [fr EXCEPT ![s] =
              IF c.subs # <<>> /\ c.nets # <<>> THEN Done(f, "false", "malformed")
              ELSE IF c.stop # "" /\ blobs[c.stop] = "absent"
                   THEN Done(f, "throw", "noblob")
              ELSE IF NumIterWithStopBlob(c) THEN Done(f, "throw", "enforce")
              ELSE IF c.stop = "" /\ c.once # "unset"
                   THEN Done(f, "throw", "enforce")
              ELSE IF c.subs = <<>> /\ \E i \in 1..Len(c.nets) : c.nets[i] \notin NetMap
                   THEN Done(f, "false", "nonet")
              ELSE [f EXCEPT !.pc = "loop", !.iter = 0]]
    /\ UNCHANGED <<plan, blobs, extStop, handleExc, nextSubstep, gotFailure,
                   firstException, wkr, aborted>>

\* The test of the for loops of lines 340 and 426, and the start of an
\* iteration.
Loop(s) ==
    /\ UNCHANGED <<nonPlanVars, rep>>
    /\ ~aborted
    /\ fr[s].pc = "loop"
    /\ LET c == plan[s]
           f == [fr[s] EXCEPT !.extFalse = @ \/ ~ExternalShouldContinue(s)]
           cont == ExternalShouldContinue(s) /\ NetShouldContinue(c, f.iter)
       IN  IF ~cont
           THEN /\ fr' = [fr EXCEPT ![s] = Done(f, "true", "loop")]
                /\ UNCHANGED <<nextSubstep, gotFailure, firstException, wkr>>
           ELSE IF c.subs # <<>> /\ ~ConcurrentMode(s)
           THEN /\ fr' = [fr EXCEPT ![s] = [f EXCEPT !.pc = "call", !.idx = 1,
                                               !.trace = AppendCap(@, c.subs[1])],
                                    ![c.subs[1]] = Entering]
                /\ UNCHANGED <<nextSubstep, gotFailure, firstException, wkr>>
           ELSE IF c.subs # <<>>
           THEN /\ fr' = [fr EXCEPT ![s] = [f EXCEPT !.pc = "join"]]
                /\ nextSubstep' = 0
                /\ gotFailure' = FALSE
                /\ firstException' = ""
                /\ wkr' = [j \in 1..Len(c.subs) |->
                                [pc |-> "fetch", id |-> 0, caught |-> FALSE]]
           ELSE /\ fr' = [fr EXCEPT ![s] =
                            IF c.nets = <<>> THEN [f EXCEPT !.iter = Inc(@)]
                            ELSE [f EXCEPT !.pc = "body", !.idx = 1]]
                /\ UNCHANGED <<nextSubstep, gotFailure, firstException, wkr>>
    /\ UNCHANGED <<plan, blobs, extStop, handleExc, aborted>>

\* What a net may do to the should_stop blobs while it runs.
\* The blobs that some step of the plan reads.
StopBlobs == {plan[s].stop : s \in Steps} \ {""}

BlobEffects ==
    {blobs} \cup {[blobs EXCEPT ![b] = v] :
                    b \in {x \in StopBlobs : blobs[x] # "absent"}, v \in {"true", "false"}}

\* lines 428-431: network->Run().
Body(s) ==
    /\ UNCHANGED <<nonPlanVars, rep>>
    /\ ~aborted
    /\ fr[s].pc = "body"
    /\ \E r \in {"true", "false", "throw"} : \E e \in BlobEffects :
         LET f == [fr[s] EXCEPT !.trace = AppendCap(@, plan[s].nets[fr[s].idx])]
         IN  /\ blobs' = e
             /\ fr' = [fr EXCEPT ![s] =
                         IF r = "true" THEN [f EXCEPT !.pc = "check"]
                         ELSE Done(f, r, "run")]
    /\ UNCHANGED <<plan, extStop, handleExc, nextSubstep, gotFailure,
                   firstException, wkr, aborted>>

\* The next network of the iteration, or the next iteration.
NextNetwork(s, f) ==
    IF f.idx < Len(plan[s].nets) THEN [f EXCEPT !.pc = "body", !.idx = @ + 1]
    ELSE [f EXCEPT !.pc = "loop", !.iter = Inc(@)]

\* Faulty variant of CheckShouldStop: the blob is ignored.
CheckShouldStopNever(s) == FALSE

\* CHECK_SHOULD_STOP (lines 298-303): the step returns true when its blob
\* reads true.
CheckShouldStop(s) == GetShouldStop(s)

Seen(f, v) ==
    IF f.firstCheck = "none"
    THEN [f EXCEPT !.firstCheck = IF v THEN "true" ELSE "false"]
    ELSE f

\* line 432: CHECK_SHOULD_STOP after a network.
Check(s) ==
    /\ UNCHANGED <<nonPlanVars, rep>>
    /\ ~aborted
    /\ fr[s].pc = "check"
    /\ LET f == Seen(fr[s], GetShouldStop(s))
       IN  fr' = [fr EXCEPT ![s] =
                    IF CheckShouldStop(s) THEN Done(f, "true", "stop")
                    ELSE NextNetwork(s, f)]
    /\ UNCHANGED <<plan, blobs, extStop, handleExc, nextSubstep, gotFailure,
                   firstException, wkr, aborted>>

\* Faulty variant of Resume: a substep that returns false is passed over.
ResumeAfterFalse(p) ==
    /\ UNCHANGED <<nonPlanVars, rep>>
    /\ ~aborted
    /\ fr[p].pc = "call"
    /\ LET c == plan[p]
           child == c.subs[fr[p].idx]
           r == fr[child].res
           g == [fr[p] EXCEPT !.sawStop = @ \/ fr[child].why = "stop"]
           f == IF r # "throw" THEN Seen(g, GetShouldStop(p)) ELSE g
       IN  /\ fr[child].pc = "done"
           /\ fr' = IF r = "throw"
                    THEN [fr EXCEPT ![p] = Done(f, r, "substep"), ![child] = Off]
                    ELSE IF CheckShouldStop(p)
                    THEN [fr EXCEPT ![p] = Done(f, "true", "stop"), ![child] = Off]
                    ELSE IF f.idx < Len(c.subs)
                    THEN [fr EXCEPT ![p] = [f EXCEPT !.idx = @ + 1,
                                               !.trace = AppendCap(@, c.subs[f.idx + 1])],
                                    ![child] = Off,
                                    ![c.subs[f.idx + 1]] = Entering]
                    ELSE [fr EXCEPT ![p] = [f EXCEPT !.pc = "loop", !.iter = Inc(@)],
                                    ![child] = Off]
    /\ UNCHANGED <<plan, blobs, extStop, handleExc, nextSubstep, gotFailure,
                   firstException, wkr, aborted>>

\* lines 348-353: the substep has returned to the sequential loop of p.
Resume(p) ==
    /\ UNCHANGED <<nonPlanVars, rep>>
    /\ ~aborted
    /\ fr[p].pc = "call"
    /\ LET c == plan[p]
           child == c.subs[fr[p].idx]
           r == fr[child].res
           g == [fr[p] EXCEPT !.sawStop = @ \/ fr[child].why = "stop"]
           f == IF r = "true" THEN Seen(g, GetShouldStop(p)) ELSE g
       IN  /\ fr[child].pc = "done"
           /\ fr' = IF r # "true"
                    THEN [fr EXCEPT ![p] = Done(f, r, "substep"), ![child] = Off]
                    ELSE IF CheckShouldStop(p)
                    THEN [fr EXCEPT ![p] = Done(f, "true", "stop"), ![child] = Off]
                    ELSE IF f.idx < Len(c.subs)
                    THEN [fr EXCEPT ![p] = [f EXCEPT !.idx = @ + 1,
                                               !.trace = AppendCap(@, c.subs[f.idx + 1])],
                                    ![child] = Off,
                                    ![c.subs[f.idx + 1]] = Entering]
                    ELSE [fr EXCEPT ![p] = [f EXCEPT !.pc = "loop", !.iter = Inc(@)],
                                    ![child] = Off]
    /\ UNCHANGED <<plan, blobs, extStop, handleExc, nextSubstep, gotFailure,
                   firstException, wkr, aborted>>

(***************************************************************************)
(* Concurrent substeps (lines 354-412): one worker thread per substep.     *)
(***************************************************************************)
\* The step whose workers are running.
Joining == {p \in Steps : fr[p].pc = "join"}

\* Faulty variant of WFetch: the counter is read but not advanced.
WFetchStale(j) ==
    /\ UNCHANGED <<nonPlanVars, rep>>
    /\ ~aborted
    /\ j \in DOMAIN wkr
    /\ wkr[j].pc = "fetch"
    /\ wkr' = [wkr EXCEPT ![j].pc = "test", ![j].id = nextSubstep]
    /\ nextSubstep' = IF j = 1 THEN nextSubstep ELSE nextSubstep + 1
    /\ UNCHANGED <<plan, fr, blobs, extStop, handleExc, gotFailure,
                   firstException, aborted>>

\* line 367: substep_id = next_substep++.
WFetch(j) ==
    /\ UNCHANGED <<nonPlanVars, rep>>
    /\ ~aborted
    /\ j \in DOMAIN wkr
    /\ wkr[j].pc = "fetch"
    /\ wkr' = [wkr EXCEPT ![j].pc = "test", ![j].id = nextSubstep]
    /\ nextSubstep' = nextSubstep + 1
    /\ UNCHANGED <<plan, fr, blobs, extStop, handleExc, gotFailure,
                   firstException, aborted>>

\* lines 368-373: leave the loop, or start the substep that was fetched.
WTest(j) ==
    /\ UNCHANGED <<nonPlanVars, rep>>
    /\ ~aborted
    /\ j \in DOMAIN wkr
    /\ wkr[j].pc = "test"
    /\ \E p \in Joining :
         IF gotFailure \/ wkr[j].id >= Len(plan[p].subs)
         THEN /\ wkr' = [wkr EXCEPT ![j].pc = "exit"]
              /\ fr' = fr
         ELSE LET child == plan[p].subs[wkr[j].id + 1]
              IN  /\ wkr' = [wkr EXCEPT ![j].pc = "run"]
                  /\ fr' = [fr EXCEPT ![p].trace = AppendCap(@, child),
                                      ![child] = Entering]
    /\ UNCHANGED <<plan, blobs, extStop, handleExc, nextSubstep, gotFailure,
                   firstException, aborted>>

\* Faulty variant of FailureFlag: a substep that returns false is ignored.
FailureFlagThrowOnly(g, r) == g \/ r = "throw"

\* lines 374 and 382: got_failure after a substep that ended with r.
FailureFlag(g, r) == g \/ r # "true"

\* Faulty variant of RethrowInThread: the exception never leaves the thread.
RethrowNever(r, h) == FALSE

\* lines 383-389: without the policy flag the worker rethrows; an exception
\* that leaves a thread terminates the process (SIGABRT).
RethrowInThread(r, h) == r = "throw" /\ ~h

\* Faulty variant of FirstException: the last description is kept.
FirstExceptionLast(cur, r, child) == IF r = "throw" THEN child ELSE cur

\* lines 376-381: under exception_mutex, the description is stored only
\* while first_exception is empty (the description is the substep's name).
FirstException(cur, r, child) ==
    IF r = "throw" /\ cur = "" THEN child ELSE cur

\* lines 372-390: the substep of worker j has ended.
WAfter(j) ==
    /\ UNCHANGED <<nonPlanVars, rep>>
    /\ ~aborted
    /\ j \in DOMAIN wkr
    /\ wkr[j].pc = "run"
    /\ \E p \in Joining :
         LET child == plan[p].subs[wkr[j].id + 1]
             r == fr[child].res
         IN  /\ fr[child].pc = "done"
             /\ fr' = [fr EXCEPT ![child] = Off,
                                 ![p].sawStop = @ \/ fr[child].why = "stop"]
             /\ gotFailure' = FailureFlag(gotFailure, r)
             /\ firstException' = FirstException(firstException, r, child)
             /\ aborted' = RethrowInThread(r, handleExc)
             /\ wkr' = [wkr EXCEPT ![j].pc = "fetch",
                                    ![j].caught = @ \/ r = "throw"]
    /\ UNCHANGED <<plan, blobs, extStop, handleExc, nextSubstep>>

\* lines 398-411: every thread is joined.
Join(p) ==
    /\ UNCHANGED <<nonPlanVars, rep>>
    /\ ~aborted
    /\ fr[p].pc = "join"
    /\ \A j \in DOMAIN wkr : wkr[j].pc = "exit"
    /\ LET f == IF gotFailure THEN fr[p] ELSE Seen(fr[p], GetShouldStop(p))
       IN  fr' = [fr EXCEPT ![p] =
                    IF gotFailure
                    THEN IF firstException # "" THEN Done(f, "throw", "workers")
                         ELSE Done(f, "false", "workers")
                    ELSE IF CheckShouldStop(p) THEN Done(f, "true", "stop")
                    ELSE [f EXCEPT !.pc = "loop", !.iter = Inc(@)]]
    /\ wkr' = <<>>
    /\ UNCHANGED <<plan, blobs, extStop, handleExc, nextSubstep, gotFailure,
                   firstException, aborted>>

\* The caller's should-continue predicate turns false.
Interrupt ==
    /\ UNCHANGED <<nonPlanVars, rep>>
    /\ ~aborted
    /\ ~extStop
    /\ fr["R"].pc \notin {"off", "done"}
    /\ extStop' = TRUE
    /\ UNCHANGED <<plan, fr, blobs, handleExc, nextSubstep, gotFailure,
                   firstException, wkr, aborted>>

(***************************************************************************)
(* The Reporter of a step that declares report_net (lines 261-294 and      *)
(* 316-326): a thread that runs the report net every report_interval, and  *)
(* the destructor that stops it when ExecuteStepRecursive of the root step *)
(* is left.                                                                *)
(***************************************************************************)
MaxReports == 2

\* A step without report_net: its Reporter starts no thread.
NoReporter ==
    [net |-> "", interval |-> FALSE, main |-> "none", th |-> "none",
     mu |-> "free", done |-> FALSE, notified |-> FALSE, runs |-> 0,
     failures |-> 0, late |-> FALSE]

\* The step has left its body: it returns or throws once the destructor of
\* the Reporter is through.
StepLeft == fr["R"].pc = "done"

\* ExecuteStepRecursive of the root step has returned or thrown.
StepReturned == StepLeft /\ rep.main \in {"none", "returned"}

\* lines 316-326: the enforce on report_interval, the lookup of the report
\* net and Reporter::start (262-274).  A step with both substeps and
\* networks has returned before (310-314).
RepStart ==
    /\ UNCHANGED nonPlanVars
    /\ ~aborted
    /\ rep.main = "decl"
    /\ fr["R"].pc = "enter"
    /\ IF plan["R"].subs # <<>> /\ plan["R"].nets # <<>>
       THEN /\ rep' = [rep EXCEPT !.main = "none"]
            /\ fr' = fr
       ELSE IF ~rep.interval
       THEN /\ rep' = [rep EXCEPT !.main = "body"]
            /\ fr' = [fr EXCEPT !["R"] = Done(@, "throw", "enforce")]
       ELSE /\ rep' = [rep EXCEPT !.main = "body", !.th = "begin"]
            /\ fr' = fr
    /\ UNCHANGED <<plan, blobs, extStop, handleExc, nextSubstep, gotFailure,
                   firstException, wkr, aborted>>

\* The rest of ExecuteStepRecursive runs with the Reporter started.
RepBody ==
    /\ rep.main = "body"
    /\ Enter("R") \/ Loop("R") \/ Body("R") \/ Check("R")

\* line 265 and the first wait_for of line 267: the thread takes
\* report_mutex and releases it in the wait.
RepBegin ==
    /\ UNCHANGED nonPlanVars
    /\ ~aborted
    /\ rep.th = "begin"
    /\ rep.mu = "free"
    /\ rep' = [rep EXCEPT !.th = "wait"]
    /\ UNCHANGED <<plan, fr, blobs, extStop, handleExc, nextSubstep,
                   gotFailure, firstException, wkr, aborted>>

\* line 267: wait_for returns, after a notification, after the interval or
\* spuriously, with report_mutex taken again.
RepWake ==
    /\ UNCHANGED nonPlanVars
    /\ ~aborted
    /\ rep.th = "wait"
    /\ rep.mu = "free"
    /\ rep' = [rep EXCEPT !.th = "run", !.mu = "rep", !.notified = FALSE]
    /\ UNCHANGED <<plan, fr, blobs, extStop, handleExc, nextSubstep,
                   gotFailure, firstException, wkr, aborted>>

\* What net->Run() of the report net can do.  A report net that is not in
\* net_map_ was looked up with operator[] (line 325): the call goes through
\* a null pointer.
ReportRunOutcomes(name) ==
    IF name \in NetMap THEN {"true", "false", "throw"}
    ELSE {"true", "false", "crash"}

Bump(n) == IF n < MaxReports THEN n + 1 ELSE n

\* lines 268-270: the report net runs; a false result is logged.  An
\* exception leaves the thread and terminates the process.
RepRun ==
    /\ UNCHANGED nonPlanVars
    /\ ~aborted
    /\ rep.th = "run"
    /\ \E r \in ReportRunOutcomes(rep.net) :
         IF r \in {"throw", "crash"}
         THEN /\ rep' = [rep EXCEPT !.th = "crash"]
              /\ aborted' = TRUE
         ELSE /\ rep' = [rep EXCEPT !.th = "test", !.runs = Bump(@),
                                    !.failures = IF r = "false" THEN Bump(@) ELSE @,
                                    !.late = @ \/ rep.main = "returned"]
              /\ aborted' = aborted
    /\ UNCHANGED <<plan, fr, blobs, extStop, handleExc, nextSubstep,
                   gotFailure, firstException, wkr>>

\* line 271: while (!done), read under report_mutex; the thread waits again
\* or ends, and the mutex is released either way.
RepTest ==
    /\ UNCHANGED nonPlanVars
    /\ ~aborted
    /\ rep.th = "test"
    /\ rep' = [rep EXCEPT !.th = IF rep.done THEN "exit" ELSE "wait",
                          !.mu = "free"]
    /\ UNCHANGED <<plan, fr, blobs, extStop, handleExc, nextSubstep,
                   gotFailure, firstException, wkr, aborted>>

\* lines 276-279: the destructor runs when the step is left; without a
\* joinable thread it returns at once.
RepDtorBegin ==
    /\ UNCHANGED nonPlanVars
    /\ ~aborted
    /\ rep.main = "body"
    /\ StepLeft
    /\ rep' = [rep EXCEPT !.main = IF rep.th = "none" THEN "returned" ELSE "lock"]
    /\ UNCHANGED <<plan, fr, blobs, extStop, handleExc, nextSubstep,
                   gotFailure, firstException, wkr, aborted>>

\* lines 280-283: done = true under report_mutex.
RepDtorDone ==
    /\ UNCHANGED nonPlanVars
    /\ ~aborted
    /\ rep.main = "lock"
    /\ rep.mu = "free"
    /\ rep' = [rep EXCEPT !.main = "notify", !.done = TRUE]
    /\ UNCHANGED <<plan, fr, blobs, extStop, handleExc, nextSubstep,
                   gotFailure, firstException, wkr, aborted>>

\* line 284: report_cv.notify_all() reaches the thread if it is waiting.
RepDtorNotify ==
    /\ UNCHANGED nonPlanVars
    /\ ~aborted
    /\ rep.main = "notify"
    /\ rep' = [rep EXCEPT !.main = "join", !.notified = rep.th = "wait"]
    /\ UNCHANGED <<plan, fr, blobs, extStop, handleExc, nextSubstep,
                   gotFailure, firstException, wkr, aborted>>

\* Faulty variant of RepDtorJoin: the thread is detached, not joined.
RepDtorDetach ==
    /\ UNCHANGED nonPlanVars
    /\ ~aborted
    /\ rep.main = "join"
    /\ rep' = [rep EXCEPT !.main = "returned"]
    /\ UNCHANGED <<plan, fr, blobs, extStop, handleExc, nextSubstep,
                   gotFailure, firstException, wkr, aborted>>

\* line 285: report_thread.join() returns when the thread has ended.
RepDtorJoin ==
    /\ UNCHANGED nonPlanVars
    /\ ~aborted
    /\ rep.main = "join"
    /\ rep.th = "exit"
    /\ rep' = [rep EXCEPT !.main = "returned"]
    /\ UNCHANGED <<plan, fr, blobs, extStop, handleExc, nextSubstep,
                   gotFailure, firstException, wkr, aborted>>

(***************************************************************************)
(* The dataset cursor: schema [a, b:lengths, b:values], so two domains     *)
(* (offset fields): the top level and the domain of b.                     *)
(***************************************************************************)
NumThreads == 2
MaxReads == 3
MaxTop == 2
MaxLength == 1
MaxBatch == 2

Threads == 1..NumThreads

RECURSIVE SumTo(_, _)
\* The sum of the first k entries of the lengths q.
SumTo(q, k) == IF k = 0 THEN 0 ELSE q[k] + SumTo(q, k - 1)

\* A consistent dataset with the lengths q.
MkData(q) ==
    [a |-> [i \in 1..Len(q) |-> i], lens |-> q,
     vals |-> [x \in 1..SumTo(q, Len(q)) |-> 100 + x]]

\* The dataset of the cursor-batch scenario.
Example ==
    [a |-> <<1, 2, 3, 4>>, lens |-> <<2, 0, 1, 3>>,
     vals |-> <<10, 11, 20, 30, 31, 32>>]

Datasets ==
    {MkData(q) : q \in UNION {[1..k -> 0..MaxLength] : k \in 0..MaxTop}}
        \cup {Example}

Min(x, y) == IF x < y THEN x ELSE y

\* lines 301-307: the size limit of each domain.
Limits(d) == <<Min(Len(d.a), Len(d.lens)), Len(d.vals)>>

\* lines 311-313 and 379-381: offsets.assign(sizes.size(), 0).
Zeros == <<0, 0>>

\* Faulty variant of SumFrom: the length pointer is not moved.
SumFromFirstOnly(q, off, k) == IF k <= 0 THEN 0 ELSE q[off + 1] * k

RECURSIVE SumFrom(_, _, _)
\* lines 122-127: the sum of k lengths that follow position off.
SumFrom(q, off, k) ==
    IF k <= 0 THEN 0 ELSE q[off + 1] + SumFrom(q, off + 1, k - 1)

\* line 116.
TopTotal(limit, offset, num) == Min(limit - offset, num)

\* Faulty variant of Advance: the offsets are advanced in place, domain by
\* domain.
AdvanceInPlace(q, off, limits, num) ==
    IF Len(off) # 2 THEN [st |-> "abort", sizes |-> <<>>, offsets |-> off]
    ELSE IF limits[1] < off[1] THEN [st |-> "throw", sizes |-> <<>>, offsets |-> off]
    ELSE LET total == TopTotal(limits[1], off[1], num)
             sub == IF off[1] + total <= Len(q) THEN SumFrom(q, off[1], total)
                    ELSE limits[2] + 1
         IN  IF off[2] + sub > limits[2]
             THEN [st |-> "throw", sizes |-> <<>>,
                   offsets |-> <<off[1] + total, off[2]>>]
             ELSE [st |-> "ok", sizes |-> <<total, sub>>,
                   offsets |-> <<off[1] + total, off[2] + sub>>]

\* TreeIterator::advance on the offsets off: a failed CHECK_EQ ("abort"), a
\* failed CAFFE_ENFORCE ("throw"), or the sizes and the new offsets.  The
\* top total is cut at the limit, so the lengths read lie inside the tensor.
Advance(q, off, limits, num) ==
    IF Len(off) # 2 THEN [st |-> "abort", sizes |-> <<>>, offsets |-> off]
    ELSE IF limits[1] < off[1] THEN [st |-> "throw", sizes |-> <<>>, offsets |-> off]
    ELSE LET total == TopTotal(limits[1], off[1], num)
             sub == IF off[1] + total <= Len(q) THEN SumFrom(q, off[1], total)
                    ELSE limits[2] + 1
         IN  IF off[2] + sub > limits[2]
             THEN [st |-> "throw", sizes |-> <<>>, offsets |-> off]
             ELSE [st |-> "ok", sizes |-> <<total, sub>>,
                   offsets |-> <<off[1] + total, off[2] + sub>>]

\* lines 332-336: the rows [offset, offset + size) of a field.
Slice(f, offset, size) == SubSeq(f, offset + 1, offset + size)

IdleThread ==
    [pc |-> "idle", op |-> "none", n |-> 0, seq |-> 0, cap |-> <<>>,
     sizes |-> <<>>, first |-> FALSE, k |-> 0, mat |-> <<>>, res |-> "none"]

\* Faulty variant of MutexFree: the lock is not taken.
MutexFreeAlways(m) == TRUE

\* std::lock_guard on cursor->mutex_ blocks while another thread holds it.
MutexFree(m) == m = 0

\* ReadNextBatchOp::RunOnDevice, up to the lock of line 310.
RnbLock(t) ==
    /\ UNCHANGED nonCursorVars
    /\ ~crashed
    /\ th[t].pc = "idle"
    /\ taken < MaxReads
    /\ MutexFree(mutex)
    /\ \E n \in 1..MaxBatch :
         th' = [th EXCEPT ![t] = [IdleThread EXCEPT !.pc = "locked", !.op = "next",
                                                   !.n = n, !.seq = taken + 1]]
    /\ mutex' = t
    /\ taken' = taken + 1
    /\ UNCHANGED <<data, perm, offsets, fresh, wasReset, batches, crashed>>

\* lines 311-314: give an empty cursor its offsets and capture them.
RnbCapture(t) ==
    /\ UNCHANGED nonCursorVars
    /\ ~crashed
    /\ th[t].pc = "locked" /\ th[t].op = "next"
    /\ LET off == IF offsets = <<>> THEN Zeros ELSE offsets
       IN  /\ offsets' = off
           /\ th' = [th EXCEPT ![t] = [@ EXCEPT !.pc = "captured", !.cap = off,
                                                !.first = fresh]]
    /\ fresh' = FALSE
    /\ UNCHANGED <<data, perm, mutex, taken, wasReset, batches, crashed>>

\* lines 315-316: advance the cursor and unlock.
RnbAdvance(t) ==
    /\ UNCHANGED nonCursorVars
    /\ ~crashed
    /\ th[t].pc = "captured" /\ th[t].op = "next"
    /\ LET r == Advance(data.lens, offsets, Limits(data), th[t].n)
       IN  /\ crashed' = (r.st = "abort")
           /\ offsets' = r.offsets
           /\ th' = [th EXCEPT ![t] =
                       IF r.st = "ok"
                       THEN [@ EXCEPT !.pc = "gather", !.sizes = r.sizes]
                       ELSE [IdleThread EXCEPT !.res = r.st]]
    /\ mutex' = 0
    /\ UNCHANGED <<data, perm, taken, fresh, wasReset, batches>>

\* The copy of lines 332-336 when the slice may run past the end of the
\* field: what lies behind the tensor is read as some value, here -1.
CopyRows(f, offset, size) ==
    [i \in 1..size |-> IF offset + i \in DOMAIN f THEN f[offset + i] ELSE -1]

\* The slices of a call lie inside the fields.
InsideFields(c, z) ==
    /\ c[1] + z[1] <= Len(data.a)
    /\ c[1] + z[1] <= Len(data.lens)
    /\ c[2] + z[2] <= Len(data.vals)

\* lines 317-338: copy the slice of every field, outside the lock.  A slice
\* that runs past the end of a field is an out-of-bounds read: the process
\* may die, or the batch holds whatever was read.
RnbGather(t) ==
    /\ UNCHANGED nonCursorVars
    /\ ~crashed
    /\ th[t].pc = "gather" /\ th[t].op = "next"
    /\ \E die \in BOOLEAN :
         /\ die => ~InsideFields(th[t].cap, th[t].sizes)
         /\ crashed' = die
         /\ batches' =
              IF die THEN batches
              ELSE batches \cup
                {[seq |-> th[t].seq, n |-> th[t].n, off |-> th[t].cap,
                  sizes |-> th[t].sizes, first |-> th[t].first,
                  a |-> CopyRows(data.a, th[t].cap[1], th[t].sizes[1]),
                  lens |-> CopyRows(data.lens, th[t].cap[1], th[t].sizes[1]),
                  vals |-> CopyRows(data.vals, th[t].cap[2], th[t].sizes[2])]}
         /\ th' = [th EXCEPT ![t] =
                     [IdleThread EXCEPT !.res = IF die THEN "abort" ELSE "ok"]]
    /\ UNCHANGED <<data, perm, offsets, mutex, taken, fresh, wasReset>>

\* ResetCursorOp::RunOnDevice, line 211.
ResetLock(t) ==
    /\ UNCHANGED nonCursorVars
    /\ ~crashed
    /\ th[t].pc = "idle"
    /\ taken < MaxReads
    /\ MutexFree(mutex)
    /\ th' = [th EXCEPT ![t] = [IdleThread EXCEPT !.pc = "locked", !.op = "reset"]]
    /\ mutex' = t
    /\ taken' = taken + 1
    /\ UNCHANGED <<data, perm, offsets, fresh, wasReset, batches, crashed>>

\* Faulty variant of Cleared: the offsets survive the reset.
ClearedKeep(o) == o

\* line 212: cursor->offsets.clear().
Cleared(o) == <<>>

\* lines 212-213.
ResetClear(t) ==
    /\ UNCHANGED nonCursorVars
    /\ ~crashed
    /\ th[t].pc = "locked" /\ th[t].op = "reset"
    /\ offsets' = Cleared(offsets)
    /\ mutex' = 0
    /\ fresh' = TRUE
    /\ wasReset' = TRUE
    /\ th' = [th EXCEPT ![t] = [IdleThread EXCEPT !.res = "ok"]]
    /\ UNCHANGED <<data, perm, taken, batches, crashed>>

\* ComputeOffsetOp::RunOnDevice, lines 348-376.  No lock is taken.
CoStart(t) ==
    /\ UNCHANGED nonCursorVars
    /\ ~crashed
    /\ th[t].pc = "idle"
    /\ taken < MaxReads
    /\ th' = [th EXCEPT ![t] = [IdleThread EXCEPT !.pc = "co", !.op = "offset",
                                              !.first = (offsets = <<>>)]]
    /\ taken' = taken + 1
    /\ UNCHANGED <<data, perm, offsets, mutex, fresh, wasReset, batches, crashed>>

\* lines 379-381.
CoAssign(t) ==
    /\ UNCHANGED nonCursorVars
    /\ ~crashed
    /\ th[t].pc = "co"
    /\ offsets' = IF offsets = <<>> THEN Zeros ELSE offsets
    /\ th' = [th EXCEPT ![t].pc = "co_copy"]
    /\ UNCHANGED <<data, perm, mutex, taken, fresh, wasReset, batches, crashed>>

\* lines 383-384: one row of the matrix.
CoCopy(t) ==
    /\ UNCHANGED nonCursorVars
    /\ ~crashed
    /\ th[t].pc = "co_copy"
    /\ th' = [th EXCEPT ![t].pc = "co_adv", ![t].mat = Append(@, offsets)]
    /\ UNCHANGED <<data, perm, offsets, mutex, taken, fresh, wasReset, batches,
                   crashed>>

\* line 385, and the test of the loop of line 377.
CoAdvance(t) ==
    /\ UNCHANGED nonCursorVars
    /\ ~crashed
    /\ th[t].pc = "co_adv"
    /\ LET r == Advance(data.lens, offsets, Limits(data), 1)
       IN  /\ crashed' = (r.st = "abort")
           /\ offsets' = r.offsets
           /\ th' = [th EXCEPT ![t] =
                       IF r.st # "ok"
                       THEN [IdleThread EXCEPT !.op = "offset", !.res = r.st,
                                               !.first = th[t].first]
                       ELSE IF th[t].k < Limits(data)[1]
                       THEN [@ EXCEPT !.pc = "co", !.k = @ + 1]
                       ELSE [@ EXCEPT !.pc = "co_end"]]
    /\ UNCHANGED <<data, perm, mutex, taken, fresh, wasReset, batches>>

\* lines 387-388.
CoEnd(t) ==
    /\ UNCHANGED nonCursorVars
    /\ ~crashed
    /\ th[t].pc = "co_end"
    /\ offsets' = Zeros
    /\ th' = [th EXCEPT ![t] = [IdleThread EXCEPT !.op = "offset", !.res = "ok",
                                              !.first = th[t].first,
                                              !.mat = th[t].mat]]
    /\ UNCHANGED <<data, perm, mutex, taken, fresh, wasReset, batches, crashed>>

\* The offsets matrix of a dataset, the Input(2) of ReadRandomBatch.
OffsetsMatrix(d) ==
    [k \in 1..(Limits(d)[1] + 1) |-> <<k - 1, SumTo(d.lens, k - 1)>>]

\* The idx blobs: some orders of the top-level indices 0 .. n-1.
Perms(n) ==
    {[i \in 1..n |-> i - 1], [i \in 1..n |-> n - i], [i \in 1..n |-> i % n]}

\* ReadRandomBatchOp::RunOnDevice, up to the lock of line 491.
RrbLock(t) ==
    /\ UNCHANGED nonCursorVars
    /\ ~crashed
    /\ th[t].pc = "idle"
    /\ taken < MaxReads
    /\ MutexFree(mutex)
    /\ \E n \in 1..MaxBatch :
         th' = [th EXCEPT ![t] = [IdleThread EXCEPT !.pc = "locked", !.op = "random",
                                                   !.n = n, !.seq = taken + 1]]
    /\ mutex' = t
    /\ taken' = taken + 1
    /\ UNCHANGED <<data, perm, offsets, fresh, wasReset, batches, crashed>>

\* Faulty variant of Reserve: the cursor moves by one position.
ReserveOne(o, n) == <<o[1] + 1>>

\* line 494: cursor->offsets.at(0) += batchSize_.
Reserve(o, n) == <<o[1] + n>>

\* lines 492-495: reserve [idx, idx + n) and unlock.
RrbReserve(t) ==
    /\ UNCHANGED nonCursorVars
    /\ ~crashed
    /\ th[t].pc = "locked" /\ th[t].op = "random"
    /\ LET o == IF offsets = <<>> THEN <<0>> ELSE <<offsets[1]>>
       IN  /\ offsets' = Reserve(o, th[t].n)
           /\ th' = [th EXCEPT ![t] = [@ EXCEPT !.pc = "gather", !.k = o[1]]]
    /\ mutex' = 0
    /\ fresh' = FALSE
    /\ UNCHANGED <<data, perm, taken, wasReset, batches, crashed>>

\* lines 503-506 and 531-534: the positions of the idx blob a call visits.
Visited(idx, n) == {x \in idx..(idx + n - 1) : x < Len(perm)}

RECURSIVE GatherVals(_, _)
\* lines 531-545 for field b:values: the slices named by the matrix rows of
\* the positions lo .. hi of the idx blob.
GatherVals(lo, hi) ==
    IF lo > hi THEN <<>>
    ELSE LET m == OffsetsMatrix(data)
             row == perm[lo + 1]
         IN  Slice(data.vals, m[row + 1][2], m[row + 2][2] - m[row + 1][2])
                 \o GatherVals(lo + 1, hi)

\* lines 497-548: gather the rows of the reserved positions, outside the lock.
RrbGather(t) ==
    /\ UNCHANGED nonCursorVars
    /\ ~crashed
    /\ th[t].pc = "gather" /\ th[t].op = "random"
    /\ LET v == Visited(th[t].k, th[t].n)
           hi == th[t].k + Cardinality(v) - 1
       IN  batches' = batches \cup
             {[seq |-> th[t].seq, n |-> th[t].n, idx |-> th[t].k, pos |-> v,
               a |-> [i \in 1..Cardinality(v) |-> data.a[perm[th[t].k + i] + 1]],
               vals |-> GatherVals(th[t].k, hi)]}
    /\ th' = [th EXCEPT ![t] = [IdleThread EXCEPT !.res = "ok"]]
    /\ UNCHANGED <<data, perm, offsets, mutex, taken, fresh, wasReset, crashed>>

\* The cursor after CreateTreeCursor, and nothing running on it.
CursorIdle ==
    /\ offsets = <<>>
    /\ mutex = 0
    /\ th = [t \in Threads |-> IdleThread]
    /\ taken = 0
    /\ fresh = TRUE
    /\ wasReset = FALSE
    /\ batches = {}
    /\ crashed = FALSE

\* No cursor operator is in use.
CursorOff ==
    /\ data = MkData(<<>>)
    /\ perm = <<>>
    /\ CursorIdle

(***************************************************************************)
(* Append and AtomicAppend (operators/dataset_ops.cc).                     *)
(* A tensor is its element type, its dims and its elements in row-major    *)
(* order; an element is named by the call that wrote it.                   *)
(***************************************************************************)
MaxAppends == 2
MaxAtomic == 3
MaxRows == 2

\* The fields of an AtomicAppend call, in the order of its loops.
FieldOrder == <<"a", "b">>
NumFields == Len(FieldOrder)

Metas == {"int", "float"}

RECURSIVE Prod(_)
Prod(d) == IF d = <<>> THEN 1 ELSE Head(d) * Prod(Tail(d))

\* Tensor::ndim, Tensor::size and the dims behind the outer-most one.
Ndim(x) == Len(x.dims)
Size(x) == Prod(x.dims)
TrailingDims(x) == IF x.dims = <<>> THEN <<>> ELSE Tail(x.dims)

\* A tensor of shape d whose elements were written by call c.
Tensor(m, d, c) == [meta |-> m, dims |-> d, data |-> [i \in 1..Prod(d) |-> c]]

\* A dataset field before anything was appended.
EmptyTensor == Tensor("int", <<0>>, 0)

\* Shapes of rank 0, 1 and 2.
Shapes ==
    {<<>>} \cup {<<r>> : r \in 0..MaxRows}
           \cup {<<r, c>> : r \in 0..MaxRows, c \in 0..MaxRows}

\* The tensors a call c may append.
Sources(c) == {Tensor(m, d, c) : m \in Metas, d \in Shapes}

\* The sources of the AtomicAppend calls: a vector, a vector of another
\* type, a matrix and a scalar.
AtomicSources(c) ==
    {Tensor("int", <<1>>, c), Tensor("float", <<1>>, c),
     Tensor("int", <<1, 1>>, c), Tensor("int", <<>>, c)}

\* Tensor::CopyFrom: the destination becomes a copy of the source.
CopyFrom(c, b) == b

\* Tensor::Extend(num, growthPct, context): num more rows along axis 0; the
\* elements already there are kept.
Extend(c, num) == [c EXCEPT !.dims[1] = @ + num]

\* lines 572-576 and 610-614: rank, type and trailing dims agree.
ChecksPassAlways(a, b) == TRUE
ChecksPass(a, b) ==
    /\ Ndim(a) = Ndim(b)
    /\ a.meta = b.meta
    /\ \A i \in 2..Ndim(a) : a.dims[i] = b.dims[i]

\* lines 577-581 and 626-630: extend by the rows of b and copy b's elements
\* behind the old ones.
CopyBehind(c, b) == [Extend(c, b.dims[1]) EXCEPT !.data = c.data \o b.data]

\* AppendOp::RunOnDevice, lines 560-582.  The schema enforces that input 0
\* and the output are one blob (line 835), so line 571 never fails.
AppendResult(a, b) ==
    IF ~(Ndim(b) >= 1) THEN [res |-> "throw", c |-> a]
    ELSE IF Size(a) = 0 THEN [res |-> "ok", c |-> CopyFrom(a, b)]
    ELSE IF ~ChecksPass(a, b) THEN [res |-> "throw", c |-> a]
    ELSE [res |-> "ok", c |-> CopyBehind(a, b)]

NoAppend == [f |-> 0, before |-> EmptyTensor, src |-> EmptyTensor, res |-> "none"]

AppendOp(f) ==
    /\ UNCHANGED nonAppendVars
    /\ appends < MaxAppends
    /\ \E b \in Sources(appends + 1) :
         LET r == AppendResult(fields[f], b)
         IN  /\ fields' = [fields EXCEPT ![f] = r.c]
             /\ lastAppend' = [f |-> f, before |-> fields[f], src |-> b,
                               res |-> r.res]
    /\ appends' = appends + 1
    /\ UNCHANGED <<amutex, ath, done>>

IdleAppender ==
    [pc |-> "idle", id |-> 0, src |-> <<>>, i |-> 0, before |-> <<>>,
     after |-> <<>>, res |-> "none"]

\* line 597: the lock_guard on the mutex blob.
UnlockedAlways(m) == TRUE
Unlocked(m) == m = 0

AaLock(t) ==
    /\ UNCHANGED nonAppendVars
    /\ ath[t].pc = "idle"
    /\ appends < MaxAtomic
    /\ Unlocked(amutex)
    /\ \E src \in [1..NumFields -> AtomicSources(appends + 1)] :
         ath' = [ath EXCEPT ![t] =
                   [IdleAppender EXCEPT !.pc = "check", !.id = appends + 1,
                                        !.src = src, !.i = 1,
                                        !.before = fields]]
    /\ amutex' = t
    /\ appends' = appends + 1
    /\ UNCHANGED <<fields, done, lastAppend>>

\* lines 600-615: the checks of one field.  The destinations are passed as
\* input and output (line 851), so line 608 does not fail.
AaCheck(t) ==
    /\ UNCHANGED nonAppendVars
    /\ ath[t].pc = "check"
    /\ LET i == ath[t].i
           a == fields[i]
           b == ath[t].src[i]
           ok == Ndim(b) >= 1 /\ (Size(a) = 0 \/ ChecksPass(a, b))
       IN  IF ~ok
           THEN /\ ath' = [ath EXCEPT ![t] =
                             [IdleAppender EXCEPT !.id = ath[t].id,
                                                  !.src = ath[t].src,
                                                  !.before = ath[t].before,
                                                  !.after = fields,
                                                  !.res = "throw"]]
                /\ amutex' = IF amutex = t THEN 0 ELSE amutex
           ELSE /\ ath' = [ath EXCEPT ![t].pc =
                                         IF i < NumFields THEN "check" ELSE "copy",
                                      ![t].i = IF i < NumFields THEN i + 1 ELSE 1]
                /\ amutex' = amutex
    /\ UNCHANGED <<fields, appends, done, lastAppend>>

\* lines 618-631: the copy of one field; the guard is released on return.
AaCopy(t) ==
    /\ UNCHANGED nonAppendVars
    /\ ath[t].pc = "copy"
    /\ LET i == ath[t].i
           a == fields[i]
           b == ath[t].src[i]
           c == IF Size(a) = 0 THEN CopyFrom(a, b) ELSE CopyBehind(a, b)
           f2 == [fields EXCEPT ![i] = c]
       IN  /\ fields' = f2
           /\ done' = IF i = 1 THEN Append(done, [id |-> ath[t].id, src |-> ath[t].src])
                      ELSE done
           /\ IF i < NumFields
              THEN /\ ath' = [ath EXCEPT ![t].i = i + 1]
                   /\ amutex' = amutex
              ELSE /\ ath' = [ath EXCEPT ![t] =
                                [IdleAppender EXCEPT !.id = ath[t].id,
                                                     !.src = ath[t].src,
                                                     !.before = ath[t].before,
                                                     !.after = f2,
                                                     !.res = "ok"]]
                   /\ amutex' = IF amutex = t THEN 0 ELSE amutex
    /\ UNCHANGED <<appends, lastAppend>>

\* No append operator is in use.
AppendIdle ==
    /\ fields = [i \in 1..NumFields |-> EmptyTensor]
    /\ amutex = 0
    /\ ath = [t \in Threads |-> IdleAppender]
    /\ appends = 0
    /\ done = <<>>
    /\ lastAppend = NoAppend

(***************************************************************************)
(* SortAndShuffle (operators/dataset_ops.cc).  shuffle_idx holds the       *)
(* indices 0..size-1; position p of a sequence is index p-1 of the vector. *)
(***************************************************************************)
MaxSize == 4

\* All orders of the elements of S.
Orders(S) ==
    {q \in [1..Cardinality(S) -> S] : \A x \in S : \E i \in DOMAIN q : q[i] = x}

\* lines 430-432: the orders std::sort may leave, given the comparison
\* sortdata[i1] < sortdata[i2]; equal keys may come in any order.
Sorted(size, key) ==
    {q \in Orders(0..(size - 1)) :
        \A i, j \in 1..size : i < j => ~(key[q[j] + 1] < key[q[i] + 1])}

\* line 419.
NumBatch(size, bs) == size \div bs

\* lines 415-418: the enforce on batch_size and shuffle_size.
Accepted(size, bs, ss) == bs > 0 /\ ss > 0 /\ 0 < bs * ss /\ bs * ss <= size

\* lines 438-441: std::shuffle of the window [offset, offset + w).
ShuffledWindows(idx, offset, w) ==
    {[p \in 1..Len(idx) |->
         IF p > offset /\ p <= offset + w THEN idx[offset + q[p - offset]] ELSE idx[p]] :
       q \in Orders(1..w)}

RECURSIVE CopyBatches(_, _, _)
\* lines 451-457: the batches in the order of batch_idx.
CopyBatches(idx, order, bs) ==
    IF order = <<>> THEN <<>>
    ELSE SubSeq(idx, Head(order) * bs + 1, (Head(order) + 1) * bs)
           \o CopyBatches(idx, Tail(order), bs)

\* lines 458-461: the indices behind the last whole batch.
RemainderNone(idx, nb, bs) == <<>>
Remainder(idx, nb, bs) == SubSeq(idx, nb * bs + 1, Len(idx))

IdleShuffle ==
    [pc |-> "idle", size |-> 0, bs |-> 0, ss |-> 0, sorted |-> FALSE,
     key |-> <<>>, idx |-> <<>>, offset |-> 0, order |-> <<>>, out |-> <<>>,
     res |-> "none"]

\* lines 402-433: the arguments, the enforce, iota and the sort.
ShStart ==
    /\ UNCHANGED nonShuffleVars
    /\ shuf.pc = "idle"
    /\ \E size \in 0..MaxSize, bs \in 0..MaxSize, ss \in 0..MaxSize,
          sorted \in BOOLEAN :
         \E key \in [1..size -> 0..1] :
            LET r == [IdleShuffle EXCEPT !.size = size, !.bs = bs, !.ss = ss,
                                         !.sorted = sorted, !.key = key]
            IN  IF ~Accepted(size, bs, ss)
                THEN shuf' = [r EXCEPT !.pc = "done", !.res = "throw"]
                ELSE \E q \in (IF sorted THEN Sorted(size, key)
                                         ELSE {[p \in 1..size |-> p - 1]}) :
                        shuf' = [r EXCEPT !.pc = "window", !.idx = q]

\* lines 435-444: one turn of the window loop.
ShWindow ==
    /\ UNCHANGED nonShuffleVars
    /\ shuf.pc = "window"
    /\ LET w == shuf.bs * shuf.ss
       IN  IF w > 1 /\ shuf.offset + w < shuf.size
           THEN \E q \in ShuffledWindows(shuf.idx, shuf.offset, w) :
                   shuf' = [shuf EXCEPT !.idx = q, !.offset = @ + w]
           ELSE shuf' = [shuf EXCEPT !.pc = "batches"]

\* lines 446-449: batch_idx in a shuffled order.
ShBatches ==
    /\ UNCHANGED nonShuffleVars
    /\ shuf.pc = "batches"
    /\ \E q \in Orders(0..(NumBatch(shuf.size, shuf.bs) - 1)) :
         shuf' = [shuf EXCEPT !.pc = "copy", !.order = q]

\* lines 451-463: the output.
ShCopy ==
    /\ UNCHANGED nonShuffleVars
    /\ shuf.pc = "copy"
    /\ shuf' = [shuf EXCEPT
                  !.pc = "done", !.res = "ok",
                  !.out = CopyBatches(shuf.idx, shuf.order, shuf.bs)
                            \o Remainder(shuf.idx, NumBatch(shuf.size, shuf.bs),
                                         shuf.bs)]

ShuffleIdle == shuf = IdleShuffle

(***************************************************************************)
(* Workspace::CreateBlob and GetBlob (core/workspace.cc).  A blob is named *)
(* by the number of its allocation; 0 is nullptr.                          *)
(***************************************************************************)
MaxCreates == 3

Names == {"x", "y"}

\* Three workspaces, each but the root sharing the blobs of its parent.
Workspaces == {"root", "mid", "leaf"}
Shared == [root |-> "none", mid |-> "root", leaf |-> "mid"]

RECURSIVE HasBlob(_, _)
\* Workspace::HasBlob: a blob of that name here or in a parent.
HasBlob(w, name) ==
    \/ blobMap[w][name] # 0
    \/ Shared[w] # "none" /\ HasBlob(Shared[w], name)

\* lines 112-126: the local blob, else the parent's, else nullptr.
GetBlobLocal(w, name) == blobMap[w][name]
RECURSIVE GetBlob(_, _)
GetBlob(w, name) ==
    IF blobMap[w][name] # 0 THEN blobMap[w][name]
    ELSE IF Shared[w] # "none" /\ HasBlob(Shared[w], name)
         THEN GetBlob(Shared[w], name)
         ELSE 0

NoCreate ==
    [w |-> "none", name |-> "", ret |-> 0, seen |-> FALSE, was |-> 0, had |-> 0]

\* line 107: blob_map_[name] of this workspace takes the new blob.
StoredInRoot(m, w, name, b) == [m EXCEPT !["root"][name] = b]
Stored(m, w, name, b) == [m EXCEPT ![w][name] = b]

NetNames == {"n", "m"}

\* A net_map_ entry that holds nullptr.
NullNet == -1

IdleCreateNet == [pc |-> "idle", w |-> "none", name |-> "", prior |-> 0]

NoNet ==
    [w |-> "none", name |-> "", ret |-> 0, res |-> "none", prior |-> 0,
     clean |-> TRUE]

\* lines 103-109: the body of CreateBlob.
BlobCreated(w, name) ==
    /\ made' = IF HasBlob(w, name) THEN made ELSE made \cup {<<w, name>>}
    /\ IF HasBlob(w, name)
       THEN /\ blobMap' = blobMap
            /\ nblobs' = nblobs
            /\ lastCreate' = [w |-> w, name |-> name, ret |-> GetBlob(w, name),
                              seen |-> TRUE, was |-> GetBlob(w, name),
                              had |-> nblobs]
            /\ firstRet' = IF firstRet[w][name] = 0
                           THEN [firstRet EXCEPT ![w][name] = GetBlob(w, name)]
                           ELSE firstRet
       ELSE /\ blobMap' = Stored(blobMap, w, name, nblobs + 1)
            /\ nblobs' = nblobs + 1
            /\ lastCreate' = [w |-> w, name |-> name, ret |-> nblobs + 1,
                              seen |-> FALSE, was |-> 0, had |-> nblobs]
            /\ firstRet' = IF firstRet[w][name] = 0
                           THEN [firstRet EXCEPT ![w][name] = nblobs + 1]
                           ELSE firstRet

\* lines 102-110.
CreateBlob(w, name) ==
    /\ UNCHANGED nonWsVars
    /\ cn.pc = "idle"
    /\ UNCHANGED <<netMap, nnets, cn, lastNet>>
    /\ creates < MaxCreates
    /\ creates' = creates + 1
    /\ BlobCreated(w, name)

\* lines 82-88: the names of blob_map_, in the order of the map.
NameOrder == <<"x", "y">>
HoldsLocally(w, name) == blobMap[w][name] # 0
LocalBlobs(w) ==
    LET Here(name) == HoldsLocally(w, name) IN SelectSeq(NameOrder, Here)

RECURSIVE WsBlobs(_)
\* lines 90-100, Workspace::Blobs: the local names, then those the parent
\* lists.
WsBlobs(w) ==
    LocalBlobs(w) \o (IF Shared[w] # "none" THEN WsBlobs(Shared[w]) ELSE <<>>)

\* lines 135-142: the entry of a prior net of that name is erased, which
\* destroys the net.
ErasedKeep(m, w, name) == m
Erased(m, w, name) == [m EXCEPT ![w][name] = 0]

\* lines 134-142: the name is enforced and a prior net is destroyed.
CnBegin(w, name) ==
    /\ UNCHANGED nonWsVars
    /\ cn.pc = "idle"
    /\ creates < MaxCreates
    /\ creates' = creates + 1
    /\ \E hasName \in BOOLEAN :
         IF ~hasName
         THEN /\ lastNet' = [NoNet EXCEPT !.w = w, !.res = "throw"]
              /\ UNCHANGED <<netMap, cn>>
         ELSE /\ netMap' = Erased(netMap, w, name)
              /\ cn' = [pc |-> "construct", w |-> w, name |-> name,
                        prior |-> netMap[w][name]]
              /\ lastNet' = lastNet
    /\ UNCHANGED <<blobMap, nblobs, lastCreate, firstRet, made, nnets>>

\* lines 144-152: caffe2::CreateNet builds the net, whose operators create
\* their output blob in this workspace; a null result is stored, erased
\* again and returned.
CnConstruct ==
    /\ UNCHANGED nonWsVars
    /\ cn.pc = "construct"
    /\ \E built \in BOOLEAN, out \in Names :
         LET w == cn.w
             name == cn.name
             stored == Stored(netMap, w, name,
                              IF built THEN nnets + 1 ELSE NullNet)
         IN  /\ BlobCreated(w, out)
             /\ netMap' = IF built THEN stored ELSE Erased(stored, w, name)
             /\ nnets' = IF built THEN nnets + 1 ELSE nnets
             /\ lastNet' = [w |-> w, name |-> name,
                            ret |-> IF built THEN nnets + 1 ELSE 0,
                            res |-> IF built THEN "ok" ELSE "null",
                            prior |-> cn.prior,
                            clean |-> (netMap[w][name] = 0)]
    /\ cn' = IdleCreateNet
    /\ UNCHANGED creates

\* lines 163-167, Workspace::DeleteNet.
DeleteNet(w, name) ==
    /\ UNCHANGED nonWsVars
    /\ cn.pc = "idle"
    /\ creates < MaxCreates
    /\ creates' = creates + 1
    /\ netMap' = IF netMap[w][name] # 0 THEN Erased(netMap, w, name) ELSE netMap
    /\ lastNet' = [NoNet EXCEPT !.w = w, !.name = name, !.res = "deleted",
                                !.prior = netMap[w][name]]
    /\ UNCHANGED <<blobMap, nblobs, lastCreate, firstRet, made, nnets, cn>>

\* lines 169-175, Workspace::RunNet: false without an entry, else Run() on
\* the pointer the entry holds.
RunNet(w, name) ==
    /\ UNCHANGED nonWsVars
    /\ cn.pc = "idle"
    /\ creates < MaxCreates
    /\ creates' = creates + 1
    /\ lastNet' = [NoNet EXCEPT !.w = w, !.name = name,
                                !.ret = netMap[w][name],
                                !.res = IF netMap[w][name] = 0 THEN "absent"
                                        ELSE IF netMap[w][name] = NullNet
                                        THEN "ranNull" ELSE "ran"]
    /\ UNCHANGED <<blobMap, nblobs, lastCreate, firstRet, made, netMap, nnets,
                   cn>>

\* lines 316-326 (report_net) and 417-425 (network) of a step run by
\* RunPlan.  The report net is logged when it is missing and then looked up
\* with net_map_[name], which inserts a null entry, and the reporter is
\* started on that pointer; a missing network returns false before the
\* lookup with net_map_[name].
StepLookup(w, report, network) ==
    /\ UNCHANGED nonWsVars
    /\ cn.pc = "idle"
    /\ creates < MaxCreates
    /\ creates' = creates + 1
    /\ netMap' = IF report # "" /\ netMap[w][report] = 0
                 THEN Stored(netMap, w, report, NullNet)
                 ELSE netMap
    /\ lastNet' = [NoNet EXCEPT
                     !.w = w, !.name = network,
                     !.ret = netMap[w][network],
                     !.res = IF report # "" /\ netMap[w][report] \in {0, NullNet}
                             THEN "reportNull"
                             ELSE IF netMap[w][network] = 0 THEN "absent"
                             ELSE IF netMap[w][network] = NullNet THEN "ranNull"
                             ELSE "ran"]
    /\ UNCHANGED <<blobMap, nblobs, lastCreate, firstRet, made, nnets, cn>>

WsIdle ==
    /\ made = {}
    /\ netMap = [w \in Workspaces |-> [n \in NetNames |-> 0]]
    /\ nnets = 0
    /\ cn = IdleCreateNet
    /\ lastNet = NoNet
    /\ blobMap = [w \in Workspaces |-> [n \in Names |-> 0]]
    /\ nblobs = 0
    /\ creates = 0
    /\ lastCreate = NoCreate
    /\ firstRet = [w \in Workspaces |-> [n \in Names |-> 0]]

(***************************************************************************)
(* Registry (core/registry.h).  A creator and a help message are named by  *)
(* the number of the Register call that brought them.                      *)
(***************************************************************************)
MaxRegs == 3

Keys == {"k1", "k2"}

IdleRegister ==
    [pc |-> "idle", key |-> "", creator |-> 0, help |-> FALSE, raced |-> FALSE]

\* line 48, Registry::Has.
Has(key) == registry[key] # 0

\* lines 50-61, Registry::Create: nullptr (0) without an entry, else what the
\* creator makes, named by the creator.
Create(key) == IF registry[key] = 0 THEN 0 ELSE registry[key]

\* line 34: registry_.count(key) != 0.
RegisteredNever(key) == FALSE
Registered(key) == registry[key] # 0

\* line 33: Register(key, creator) takes register_mutex_.
RegLock(t) ==
    /\ UNCHANGED nonRegVars
    /\ ~exited /\ ~torn
    /\ rth[t].pc = "idle"
    /\ regs < MaxRegs
    /\ rmutex = 0
    /\ \E key \in Keys, help \in BOOLEAN :
         rth' = [rth EXCEPT ![t] = [pc |-> "locked", key |-> key,
                                    creator |-> regs + 1, help |-> help,
                                    raced |-> FALSE]]
    /\ rmutex' = t
    /\ regs' = regs + 1
    /\ UNCHANGED <<registry, helpMsg, exited, torn, firstReg, wins>>

\* lines 34-41: a registered key ends the process, else the creator is
\* stored and the lock released.
RegStore(t) ==
    /\ UNCHANGED nonRegVars
    /\ ~exited /\ ~torn
    /\ rth[t].pc = "locked"
    /\ IF Registered(rth[t].key)
       THEN /\ exited' = TRUE
            /\ UNCHANGED <<registry, rmutex, rth, firstReg, wins>>
       ELSE /\ registry' = [registry EXCEPT ![rth[t].key] = rth[t].creator]
            /\ firstReg' = IF firstReg[rth[t].key] = 0
                           THEN [firstReg EXCEPT ![rth[t].key] = rth[t].creator]
                           ELSE firstReg
            /\ wins' = [wins EXCEPT ![rth[t].key] = @ \cup {rth[t].creator}]
            /\ rmutex' = 0
            /\ rth' = [rth EXCEPT ![t] =
                         IF rth[t].help THEN [@ EXCEPT !.pc = "help"]
                         ELSE [IdleRegister EXCEPT !.key = rth[t].key,
                                                   !.creator = rth[t].creator]]
            /\ exited' = exited
    /\ UNCHANGED <<helpMsg, regs, torn>>

\* line 45: help_message_[key] = help_msg begins; the lock of line 33 was
\* released when Register(key, creator) returned.  A write that overlaps
\* another one is a data race on the map.
HelpBegin(t) ==
    /\ UNCHANGED nonRegVars
    /\ ~exited /\ ~torn
    /\ rth[t].pc = "help"
    /\ LET busy == {u \in Threads : rth[u].pc = "writing"}
       IN  rth' = [u \in Threads |->
                     IF u = t THEN [rth[t] EXCEPT !.pc = "writing",
                                                  !.raced = (busy # {})]
                     ELSE IF u \in busy THEN [rth[u] EXCEPT !.raced = TRUE]
                     ELSE rth[u]]
    /\ UNCHANGED <<registry, helpMsg, rmutex, regs, exited, firstReg, wins,
                   torn>>

\* line 45 ends.  After a race the map may hold the message, may have lost
\* it, or may be damaged.
HelpEnd(t) ==
    /\ UNCHANGED nonRegVars
    /\ ~exited /\ ~torn
    /\ rth[t].pc = "writing"
    /\ \E outcome \in (IF rth[t].raced THEN {"stored", "lost", "torn"}
                                      ELSE {"stored"}) :
         /\ helpMsg' = IF outcome = "stored"
                       THEN [helpMsg EXCEPT ![rth[t].key] = rth[t].creator]
                       ELSE helpMsg
         /\ torn' = (outcome = "torn")
    /\ rth' = [rth EXCEPT ![t] = [IdleRegister EXCEPT !.key = rth[t].key,
                                                     !.creator = rth[t].creator,
                                                     !.help = TRUE]]
    /\ UNCHANGED <<registry, rmutex, regs, exited, firstReg, wins>>

RegIdle ==
    /\ registry = [k \in Keys |-> 0]
    /\ helpMsg = [k \in Keys |-> 0]
    /\ rmutex = 0
    /\ rth = [t \in Threads |-> IdleRegister]
    /\ regs = 0
    /\ exited = FALSE
    /\ torn = FALSE
    /\ firstReg = [k \in Keys |-> 0]
    /\ wins = [k \in Keys |-> {}]

(***************************************************************************)
(* Operator schema (core/operator_schema.cc).  Inputs and outputs are      *)
(* numbered from 0 as in the code; a set of pairs stands for the predicate *)
(* inplace_allowed_ or inplace_enforced_.  A schema is set up before it is *)
(* used to verify.                                                         *)
(***************************************************************************)
MaxArity == 2

Arities == 0..MaxArity
Indices == 0..(MaxArity - 1)
Pairs == Indices \X Indices

BlobLists == UNION {[1..n -> Names] : n \in Arities}
OperatorDefs == [input : BlobLists, output : BlobLists]

\* lines 149-151 and 165-167: in == out.
OneToOne == {p \in Pairs : p[1] = p[2]}

\* The pair sets of the model: none, one pair, one-to-one.
PairSets == {{}} \cup {{p} : p \in Pairs} \cup {OneToOne}

\* A schema without any setting admits every arity and no in-place pair.
NewSchema ==
    [minIn |-> 0, maxIn |-> MaxArity, minOut |-> 0, maxOut |-> MaxArity,
     allowed |-> {}, enforced |-> {}]

NoDef == [input |-> <<>>, output |-> <<>>]

\* lines 84-86 (78-82): NumInputs(n).
NumInputs(n) ==
    /\ UNCHANGED nonSchemaVars
    /\ verdict = "none"
    /\ schema' = [schema EXCEPT !.minIn = n, !.maxIn = n]
    /\ UNCHANGED <<vdef, verdict>>

\* lines 106-108 (100-104): NumOutputs(n).
NumOutputs(n) ==
    /\ UNCHANGED nonSchemaVars
    /\ verdict = "none"
    /\ schema' = [schema EXCEPT !.minOut = n, !.maxOut = n]
    /\ UNCHANGED <<vdef, verdict>>

\* lines 137-151: AllowInplace, AllowOneToOneInplace.
AllowInplace(inplace) ==
    /\ UNCHANGED nonSchemaVars
    /\ verdict = "none"
    /\ schema' = [schema EXCEPT !.allowed = inplace]
    /\ UNCHANGED <<vdef, verdict>>

\* lines 153-167: EnforceInplace, EnforceOneToOneInplace.
EnforceInplace(inplace) ==
    /\ UNCHANGED nonSchemaVars
    /\ verdict = "none"
    /\ schema' = [schema EXCEPT !.enforced = inplace]
    /\ UNCHANGED <<vdef, verdict>>

\* lines 9-31: the number of inputs and of outputs lies in the range.
ArityInRange(s, def) ==
    /\ Len(def.input) >= s.minIn
    /\ Len(def.input) <= s.maxIn
    /\ Len(def.output) >= s.minOut
    /\ Len(def.output) <= s.maxOut

\* lines 54-56: an input is an output and the pair did not opt in.
NotOptedIn(s, def, in, out) ==
    /\ def.input[in + 1] = def.output[out + 1]
    /\ <<in, out>> \notin s.allowed
    /\ <<in, out>> \notin s.enforced

\* lines 63-64: an enforced pair with different names.
NotInplace(s, def, in, out) ==
    /\ def.input[in + 1] # def.output[out + 1]
    /\ <<in, out>> \in s.enforced

\* lines 65-69: the message reads def.output(in_idx).  An index outside the
\* outputs is outside the repeated field: the read is undefined, the call
\* may return false after it or the process may die in it.
MessageReadInRangeAlways(def, in) == TRUE
MessageReadInRange(def, in) == in < Len(def.output)

\* lines 50-77: the loops over (in_idx, out_idx) from the given pair on;
\* the set of the outcomes the call can have.
RECURSIVE CheckInplace(_, _, _, _)
CheckInplace(s, def, in, out) ==
    IF in >= Len(def.input) THEN {"pass"}
    ELSE IF out >= Len(def.output) THEN CheckInplace(s, def, in + 1, 0)
    ELSE IF NotOptedIn(s, def, in, out) THEN {"reject"}
    ELSE IF NotInplace(s, def, in, out)
         THEN IF MessageReadInRange(def, in) THEN {"reject"}
              ELSE {"reject", "crash"}
    ELSE CheckInplace(s, def, in, out + 1)

\* lines 7-77, OpSchema::Verify.  The predicates on the arity and the output
\* calculator are left at their defaults, which accept.
Verify(def) ==
    /\ UNCHANGED nonSchemaVars
    /\ vdef' = def
    /\ verdict' \in (IF ArityInRange(schema, def)
                     THEN CheckInplace(schema, def, 0, 0)
                     ELSE {"reject"})
    /\ UNCHANGED schema

SchemaIdle ==
    /\ schema = NewSchema
    /\ vdef = NoDef
    /\ verdict = "none"

(***************************************************************************)
(* Recurrent network, forward run with plain step nets                     *)
(* (operators/recurrent_network_op.h).  A view is the range of elements of *)
(* the external tensor that an internal blob shares.                       *)
(***************************************************************************)
MaxSeqLen == 3
MaxRnnRuns == 2

\* line 349: num_workspaces_on_fwd_only, without and with an executor.
NumWorkspacesOnFwdOnly == 2
NumWorkspacesWithExecutor == 4

SeqLens == 0..MaxSeqLen
StepSizes == {1, 2}
StepWsIndices ==
    0..((IF MaxSeqLen > NumWorkspacesWithExecutor THEN MaxSeqLen
         ELSE NumWorkspacesWithExecutor) - 1)

\* lines 56-61, detail::Link, without the blob names.
Links == [offset : {0, 1}, window : {1, 2}]
LinkSets == {ls \in SUBSET Links : Cardinality(ls) \in {1, 2}}

\* An element of scratch->stepWorkspaces: slot tells that the list is long
\* enough to hold it, exists that it points to a workspace, made how often
\* a workspace was allocated for it; net and bnet tell that the workspace
\* holds the step net and the backward step net.
NoStepWs ==
    [slot |-> FALSE, exists |-> FALSE, net |-> FALSE, timestep |-> -1,
     made |-> 0, bnet |-> FALSE]

IdleRnn ==
    [pc |-> "idle", seqLen |-> 0, t |-> 0, backward |-> FALSE,
     stepSize |-> 1, links |-> {}, executor |-> FALSE, grad |-> FALSE]

\* stepWorkspaces.size().
SizeOf(ws) == Cardinality({w \in StepWsIndices : ws[w].slot})

\* std::vector::resize(n): the elements below n are kept, new ones are
\* null, and the elements from n on are dropped.
Resize(ws, n) ==
    [w \in StepWsIndices |->
        IF w < n THEN [ws[w] EXCEPT !.slot = TRUE] ELSE NoStepWs]

\* Faulty variant of NeedsResize: the list is cut to the sequence length.
NeedsResizeToFit(backward, seqLen, size) == backward /\ seqLen # size

\* line 342: with a backward pass the list grows to the sequence length.
NeedsResize(backward, seqLen, size) == backward /\ seqLen > size

\* line 349.
NumWorkspaces(executor) ==
    IF executor THEN NumWorkspacesWithExecutor ELSE NumWorkspacesOnFwdOnly

\* lines 342-356: the two resizes before the loop.
Sized(ws, backward, seqLen, executor) ==
    LET a == IF NeedsResize(backward, seqLen, SizeOf(ws))
             THEN Resize(ws, seqLen) ELSE ws
    IN  IF ~backward /\ SizeOf(a) < NumWorkspaces(executor)
        THEN Resize(a, NumWorkspaces(executor))
        ELSE a

\* lines 359-361: the step workspace of timestep t.
CurrentStepWorkspace(backward, t) ==
    IF backward THEN t ELSE t % NumWorkspaces(rnn.executor)

\* lines 362-364: a workspace is allocated only for a null element.
MakeIfMissing(e) ==
    IF e.exists THEN e ELSE [e EXCEPT !.exists = TRUE, !.made = @ + 1]

\* lines 69-74, UpdateTimestepBlob.
UpdatedTimestepBlobKeep(ws, t) == ws
UpdatedTimestepBlob(ws, t) == [ws EXCEPT !.timestep = t]

\* lines 906-927, RNNApplyLinkOp::DoRunWithType: t is read from the timestep
\* blob; the internal tensor shares externalTimestepSize * window elements
\* from element (t + offset) * externalTimestepSize on and owns nothing.
ApplyLink(link, timestep, stepSize) ==
    [offset |-> link.offset, window |-> link.window,
     start |-> (timestep + link.offset) * stepSize,
     len |-> stepSize * link.window,
     owns |-> FALSE]

\* lines 310-356: the run begins with the sequence length of Input(0); the
\* step workspaces of earlier runs are kept.
RnnBegin ==
    /\ UNCHANGED nonRnnVars
    /\ rnn.pc \in {"idle", "done", "failed"}
    /\ rruns < MaxRnnRuns
    /\ rruns' = rruns + 1
    /\ \E seqLen \in SeqLens, backward \in BOOLEAN, stepSize \in StepSizes,
          links \in LinkSets :
         /\ rnn.pc # "idle" => (links = rnn.links /\ backward = rnn.backward)
         /\ rnn' = [pc |-> "loop", seqLen |-> seqLen, t |-> 0,
                    backward |-> backward, stepSize |-> stepSize,
                    links |-> links, executor |-> FALSE, grad |-> FALSE]
         /\ stepWs' = Sized(stepWs, backward, seqLen, FALSE)
    /\ invoked' = <<>>

\* The same for any operator that is given the scratch workspaces: with or
\* without a backward step net, with or without an executor.
RnnBeginShared ==
    /\ UNCHANGED nonRnnVars
    /\ rnn.pc \in {"idle", "done", "failed", "rejected", "gdone"}
    /\ rruns < MaxRnnRuns
    /\ rruns' = rruns + 1
    /\ \E seqLen \in SeqLens, backward \in BOOLEAN, executor \in BOOLEAN :
         /\ rnn' = [pc |-> "loop", seqLen |-> seqLen, t |-> 0,
                    backward |-> backward, stepSize |-> 1,
                    links |-> {}, executor |-> executor, grad |-> FALSE]
         /\ stepWs' = Sized(stepWs, backward, seqLen, executor)
    /\ invoked' = <<>>

\* lines 358-375: the step workspace is made when it is missing, and the
\* timestep blob is set.
RnnUpdateTimestep ==
    /\ UNCHANGED nonRnnVars
    /\ rnn.pc = "loop"
    /\ ~rnn.executor
    /\ rnn.t < rnn.seqLen
    /\ LET w == CurrentStepWorkspace(rnn.backward, rnn.t)
       IN  stepWs' = [stepWs EXCEPT ![w] =
                        UpdatedTimestepBlob(MakeIfMissing(@), rnn.t)]
    /\ rnn' = [rnn EXCEPT !.pc = "step"]
    /\ UNCHANGED <<invoked, rruns>>

\* lines 358-372 with an executor: the step workspace is made when it is
\* missing and handed to the executor as the workspace of timestep t.
RnnEnsureTimestep ==
    /\ UNCHANGED nonRnnVars
    /\ rnn.pc = "loop"
    /\ rnn.executor
    /\ rnn.t < rnn.seqLen
    /\ LET w == CurrentStepWorkspace(rnn.backward, rnn.t)
       IN  /\ stepWs' = [stepWs EXCEPT ![w] = MakeIfMissing(@)]
           /\ invoked' = Append(invoked,
                 [t |-> rnn.t, ws |-> w, timestep |-> stepWs[w].timestep,
                  views |-> {}])
    /\ rnn' = [rnn EXCEPT !.t = @ + 1]
    /\ UNCHANGED rruns

\* lines 376-382: the step net of the workspace is looked up, created when
\* missing, and run; its link operators come first.  A net that cannot be
\* constructed ends the run with an exception.
RnnRunStep ==
    /\ UNCHANGED nonRnnVars
    /\ rnn.pc = "step"
    /\ LET w == CurrentStepWorkspace(rnn.backward, rnn.t)
       IN  \E built \in BOOLEAN :
             IF ~stepWs[w].net /\ ~built
             THEN /\ rnn' = [rnn EXCEPT !.pc = "failed"]
                  /\ UNCHANGED <<stepWs, invoked>>
             ELSE /\ built
                  /\ stepWs' = [stepWs EXCEPT ![w].net = TRUE]
                  /\ invoked' = Append(invoked,
                        [t |-> rnn.t, ws |-> w,
                         timestep |-> stepWs[w].timestep,
                         views |-> {ApplyLink(l, stepWs[w].timestep,
                                              rnn.stepSize) : l \in rnn.links}])
                  /\ rnn' = [rnn EXCEPT !.pc = "loop", !.t = @ + 1]
    /\ UNCHANGED rruns

\* lines 358, 386-394: the loop ends and the run returns true.
RnnEnd ==
    /\ UNCHANGED nonRnnVars
    /\ rnn.pc = "loop"
    /\ rnn.t >= rnn.seqLen
    /\ rnn' = [rnn EXCEPT !.pc = "done"]
    /\ UNCHANGED <<stepWs, invoked, rruns>>

(***************************************************************************)
(* RecurrentNetworkGradientOp::DoRunWithType: the backward pass over the   *)
(* step workspaces of the scratch blob.                                    *)
(***************************************************************************)
\* Faulty variant of EnoughStepWorkspaces: the enforce is dropped.
EnoughStepWorkspacesAlways(size, seqLen) == TRUE

\* line 665: CAFFE_ENFORCE_GE(stepWorkspaces.size(), seqLen).
EnoughStepWorkspaces(size, seqLen) == size >= seqLen

\* lines 656-666: the sequence length of the gradient input and the enforce
\* on the number of step workspaces.
GradBegin ==
    /\ UNCHANGED nonRnnVars
    /\ rnn.pc \in {"idle", "done", "failed", "rejected", "gdone"}
    /\ rruns < MaxRnnRuns
    /\ rruns' = rruns + 1
    /\ \E seqLen \in SeqLens, executor \in BOOLEAN :
         rnn' = [pc |-> IF EnoughStepWorkspaces(SizeOf(stepWs), seqLen)
                        THEN "gloop" ELSE "rejected",
                 seqLen |-> seqLen, t |-> seqLen - 1, backward |-> TRUE,
                 stepSize |-> 1, links |-> {}, executor |-> executor,
                 grad |-> TRUE]
    /\ invoked' = <<>>
    /\ UNCHANGED stepWs

\* lines 762-774: the backward step net runs in stepWorkspaces[t] (with an
\* executor that workspace is handed to it).  An element that is null or
\* beyond the end of the list is used through an invalid pointer: the
\* process dies, or the step runs on no workspace of the list.
GradStep ==
    /\ UNCHANGED nonRnnVars
    /\ rnn.pc = "gloop"
    /\ rnn.t >= 0
    /\ LET w == rnn.t
       IN  IF stepWs[w].exists
           THEN /\ stepWs' = [stepWs EXCEPT ![w].bnet = @ \/ ~rnn.executor]
                /\ invoked' = Append(invoked,
                      [t |-> rnn.t, ws |-> w, timestep |-> stepWs[w].timestep,
                       views |-> {}])
                /\ rnn' = [rnn EXCEPT !.t = @ - 1]
           ELSE /\ stepWs' = stepWs
                /\ \/ /\ rnn' = [rnn EXCEPT !.pc = "crashed"]
                      /\ invoked' = invoked
                   \/ /\ rnn' = [rnn EXCEPT !.t = @ - 1]
                      /\ invoked' = Append(invoked,
                            [t |-> rnn.t, ws |-> -1, timestep |-> -1,
                             views |-> {}])
    /\ UNCHANGED rruns

\* lines 762, 776-778: the loop has reached t < 0.
GradEnd ==
    /\ UNCHANGED nonRnnVars
    /\ rnn.pc = "gloop"
    /\ rnn.t < 0
    /\ rnn' = [rnn EXCEPT !.pc = "gdone"]
    /\ UNCHANGED <<stepWs, invoked, rruns>>

RnnIdle ==
    /\ rnn = IdleRnn
    /\ stepWs = [w \in StepWsIndices |-> NoStepWs]
    /\ invoked = <<>>
    /\ rruns = 0

(***************************************************************************)
(* Load and Save (operators/load_save_op.h).  A blob is a record of kind   *)
(* "none" (empty), "tensor" or "string".  The (de)serializers of           *)
(* blob_serialization are modelled as the specification describes them: a  *)
(* tensor is written as chunks with a segment [begin, end), keyed by the   *)
(* name, the chunk separator and the chunk id; another blob as one record  *)
(* keyed by its name.  An element that nothing wrote reads as -1.          *)
(***************************************************************************)
MaxRecords == 3

ChunkSizes == {1, 2}
ChunkIds == <<"0", "1", "2", "3">>
kChunkIdSeparator == "#%"

RangeOf(q) == {q[i] : i \in 1..Len(q)}

NoValue == [kind |-> "none", meta |-> "", dims |-> <<>>, data |-> <<>>]
TensorBlob(m, d, elems) ==
    [kind |-> "tensor", meta |-> m, dims |-> d, data |-> elems]
StringBlob(v) ==
    [kind |-> "string", meta |-> "string", dims |-> <<>>, data |-> <<v>>]

\* The blobs Save is given; the elements of a tensor differ by position.
Payloads ==
    {TensorBlob("int", <<2>>, <<1, 2>>), TensorBlob("float", <<2>>, <<3, 4>>),
     TensorBlob("int", <<1, 2>>, <<5, 6>>), TensorBlob("int", <<3>>, <<7, 8, 9>>),
     StringBlob(1)}

\* What an output blob may hold before Load.
PriorBlobs ==
    {NoValue, StringBlob(2), TensorBlob("int", <<2>>, <<0, 0>>),
     TensorBlob("float", <<4>>, <<0, 0, 0, 0>>)}

InputLists == {<<"x">>, <<"x", "y">>, <<"y", "x">>, <<"x", "x">>}
OutputLists == {<<"x">>, <<"x", "y">>}

\* A record of the database: the key and the BlobProto of the value.
Record(key, b, seg, begin, end) ==
    [key |-> key, kind |-> b.kind, meta |-> b.meta, dims |-> b.dims,
     seg |-> seg, begin |-> begin, end |-> end,
     data |-> IF b.kind = "tensor" THEN SubSeq(b.data, begin + 1, end)
              ELSE b.data]

\* Serialization of a blob under a name: the records given to the acceptor.
NumChunks(b, c) == (Size(b) + c - 1) \div c
Serialize(name, b, c) ==
    IF b.kind = "tensor"
    THEN [k \in 1..NumChunks(b, c) |->
            Record(<<name, kChunkIdSeparator, ChunkIds[k]>>, b, TRUE,
                   (k - 1) * c, Min(k * c, Size(b)))]
    ELSE <<Record(<<name>>, b, FALSE, 0, 0)>>

\* lines 81 and 116: dbKey.substr(0, dbKey.find(kChunkIdSeparator)).
RECURSIVE KeyOf(_)
KeyOf(dbKey) ==
    IF dbKey = <<>> \/ Head(dbKey) = kChunkIdSeparator THEN <<>>
    ELSE <<Head(dbKey)>> \o KeyOf(Tail(dbKey))

\* Blob::Reset.
Reset(b) == NoValue

\* Blob::Deserialize: a tensor is resized to the dims of the record and the
\* chunk is written at its segment (the whole tensor without a segment);
\* another blob is replaced.
Deserialize(b, r) ==
    IF r.kind = "tensor"
    THEN LET n == Prod(r.dims)
             kept == b.kind = "tensor" /\ b.meta = r.meta /\ Size(b) = n
             from == IF r.seg THEN r.begin ELSE 0
         IN  TensorBlob(r.meta, r.dims,
                [i \in 1..n |->
                   IF i > from /\ i <= from + Len(r.data) THEN r.data[i - from]
                   ELSE IF kept THEN b.data[i] ELSE -1])
    ELSE [kind |-> r.kind, meta |-> r.meta, dims |-> r.dims, data |-> r.data]

\* The records of a database that Save did not write: tensors of two
\* elements, whole or as a segment, and strings.
ForeignRecords ==
    LET t == TensorBlob("int", <<2>>, <<1, 2>>)
    IN  UNION {
          {Record(<<n, kChunkIdSeparator, "0">>, t, FALSE, 0, 2),
           Record(<<n, kChunkIdSeparator, "0">>, t, TRUE, 0, 1),
           Record(<<n, kChunkIdSeparator, "1">>, t, TRUE, 1, 2),
           Record(<<n, kChunkIdSeparator, "0">>, t, TRUE, 0, 2),
           Record(<<n>>, StringBlob(1), FALSE, 0, 0)} : n \in Names}

IdleLoad ==
    [pc |-> "idle", outputs |-> <<>>, pos |-> 0, sizes |-> <<>>,
     loaded |-> {}, result |-> "none"]

\* lines 227-258, SaveOp::RunOnDevice: a new database, the check for
\* duplicated names, and the serialization of every input in order.
RECURSIVE SerializeAll(_, _, _)
SerializeAll(inputs, held, c) ==
    IF inputs = <<>> THEN <<>>
    ELSE Serialize(Head(inputs), held[Head(inputs)], c)
         \o SerializeAll(Tail(inputs), held, c)

Save ==
    /\ UNCHANGED nonLsVars
    /\ ld.pc = "idle"
    /\ db = <<>>
    /\ ~fromSave
    /\ \E inputs \in InputLists, held \in [Names -> Payloads],
          c \in ChunkSizes :
         IF Cardinality(RangeOf(inputs)) # Len(inputs)
         THEN /\ db' = <<>>
              /\ saved' = [n \in Names |-> NoValue]
         ELSE /\ db' = SerializeAll(inputs, held, c)
              /\ saved' = [n \in Names |->
                             IF n \in RangeOf(inputs) THEN held[n]
                             ELSE NoValue]
    /\ fromSave' = TRUE
    /\ ld' = IdleLoad
    /\ UNCHANGED dest

\* A record is put into a database that Save did not write.
Put(r) ==
    /\ UNCHANGED nonLsVars
    /\ ld.pc \in {"idle", "done"}
    /\ ~fromSave
    /\ Len(db) < MaxRecords
    /\ db' = Append(db, r)
    /\ ld' = IdleLoad
    /\ UNCHANGED <<fromSave, saved, dest>>

\* lines 43-48 and 131-132: output_indices_[key], the index of the output.
OutputIndexFirst(outputs, key) == 0
OutputIndex(outputs, key) ==
    CHOOSE i \in 0..(Len(outputs) - 1) : outputs[i + 1] = key

\* lines 165-169: the size read so far after a record.
Accumulated(cur, r, tensorSize) ==
    IF r.seg THEN cur + r.end - r.begin ELSE tensorSize

\* line 172: the tensor is fully loaded.
FullyLoaded(size, tensorSize) == size >= tensorSize

\* lines 186-193: tensorSize == blobSize.second.
SizesMatchAlways(tensorSize, size) == TRUE
SizesMatch(tensorSize, size) == tensorSize = size

\* lines 46-58, 106-112: Load without load_all starts at the first record.
LoadBegin ==
    /\ UNCHANGED nonLsVars
    /\ ld.pc \in {"idle", "done"}
    /\ \E outputs \in OutputLists, prior \in PriorBlobs :
         /\ ld' = [pc |-> "read", outputs |-> outputs, pos |-> 1,
                   sizes |-> [i \in 1..Len(outputs) |-> -1],
                   loaded |-> {}, result |-> "none"]
         /\ dest' = [n \in Names |-> prior]
    /\ UNCHANGED <<db, fromSave, saved>>

\* lines 114-181: one record of the cursor.  A size of -1 stands for an
\* index that blobSizes does not hold.
LoadRecord ==
    /\ UNCHANGED nonLsVars
    /\ ld.pc = "read"
    /\ IF ld.pos > Len(db)
       THEN /\ ld' = [ld EXCEPT !.pc = "check", !.pos = Len(db)]
            /\ UNCHANGED dest
       ELSE LET r == db[ld.pos]
                key == KeyOf(r.key)
            IN  IF key = <<>> \/ key[1] \notin RangeOf(ld.outputs)
                THEN /\ ld' = [ld EXCEPT !.pos = @ + 1]
                     /\ UNCHANGED dest
                ELSE IF key[1] \in ld.loaded
                THEN /\ ld' = [ld EXCEPT !.pc = "done", !.result = "multiple"]
                     /\ UNCHANGED dest
                ELSE LET idx == OutputIndex(ld.outputs, key[1])
                         name == ld.outputs[idx + 1]
                         first == ld.sizes[idx + 1] = -1
                         blob == Deserialize(IF first THEN Reset(dest[name])
                                             ELSE dest[name], r)
                         cur == IF first THEN 0 ELSE ld.sizes[idx + 1]
                         size == IF blob.kind = "tensor"
                                 THEN Accumulated(cur, r, Size(blob))
                                 ELSE cur
                         loaded == IF blob.kind # "tensor"
                                      \/ FullyLoaded(size, Size(blob))
                                   THEN ld.loaded \cup {key[1]}
                                   ELSE ld.loaded
                     IN  /\ dest' = [dest EXCEPT ![name] = blob]
                         /\ IF blob.kind = "tensor" /\ ~r.seg /\ cur # 0
                            THEN ld' = [ld EXCEPT !.pc = "done",
                                                  !.result = "nonzero",
                                                  !.sizes[idx + 1] = cur]
                            ELSE ld' = [ld EXCEPT
                                   !.sizes[idx + 1] = size,
                                   !.loaded = loaded,
                                   !.pc = IF Cardinality(loaded) >= Len(ld.outputs)
                                          THEN "check" ELSE "read",
                                   !.pos = IF Cardinality(loaded) >= Len(ld.outputs)
                                           THEN @ ELSE @ + 1]
    /\ UNCHANGED <<db, fromSave, saved>>

\* lines 183-205: the sizes read are compared to the tensors, then the
\* number of loaded blobs to the number of outputs.
LoadCheck ==
    /\ UNCHANGED nonLsVars
    /\ ld.pc = "check"
    /\ LET mismatch == \E i \in 1..Len(ld.outputs) :
                         /\ ld.sizes[i] # -1
                         /\ dest[ld.outputs[i]].kind = "tensor"
                         /\ ~SizesMatch(Size(dest[ld.outputs[i]]), ld.sizes[i])
       IN  ld' = [ld EXCEPT !.pc = "done",
                            !.result = IF mismatch THEN "mismatch"
                                       ELSE IF Cardinality(ld.loaded)
                                               # Len(ld.outputs)
                                       THEN "missing" ELSE "ok"]
    /\ UNCHANGED <<db, fromSave, saved, dest>>

LsIdle ==
    /\ db = <<>>
    /\ fromSave = FALSE
    /\ saved = [n \in Names |-> NoValue]
    /\ dest = [n \in Names |-> NoValue]
    /\ ld = IdleLoad

(***************************************************************************)
(* The plan runner (binaries/run_plan_mpi.cc): main reads the plan of      *)
(* --plan and calls Workspace::RunPlan (core/workspace.cc), whose steps    *)
(* are the plan engine above.                                              *)
(***************************************************************************)
\* run_plan_mpi.cc line 27: return 0, whatever RunPlan returned (line 21).
ExitCode(r) == "zero"

\* run_plan_mpi.cc lines 17-21 and workspace.cc lines 198-213: a plan that
\* cannot be read fails the CHECK; RunPlan returns true for a plan without
\* steps and false when a net cannot be created, else it runs the steps.
MainLoad ==
    /\ UNCHANGED nonMainVars
    /\ mainpc = "load"
    /\ \E outcome \in {"unreadable", "empty", "netfail", "steps"} :
         /\ mainpc' = CASE outcome = "unreadable" -> "exited"
                        [] outcome = "steps" -> "run"
                        [] OTHER -> "ran"
         /\ runResult' = CASE outcome = "empty" -> "true"
                           [] outcome = "netfail" -> "false"
                           [] OTHER -> runResult
         /\ exitCode' = IF outcome = "unreadable" THEN "abort" ELSE exitCode

\* workspace.cc lines 214-226: RunPlan returns what the step returned; an
\* exception of the step leaves RunPlan.
MainRunPlanReturn ==
    /\ UNCHANGED nonMainVars
    /\ mainpc = "run"
    /\ ~aborted
    /\ fr["R"].pc = "done"
    /\ runResult' = fr["R"].res
    /\ mainpc' = "ran"
    /\ UNCHANGED exitCode

\* An exception left a worker thread of the plan: the process is gone.
MainAbort ==
    /\ UNCHANGED nonMainVars
    /\ mainpc = "run"
    /\ aborted
    /\ mainpc' = "exited"
    /\ exitCode' = "abort"
    /\ UNCHANGED runResult

\* run_plan_mpi.cc lines 21-27: the result of RunPlan is not looked at; an
\* exception that left RunPlan is not caught and terminates the process.
MainReturn ==
    /\ UNCHANGED nonMainVars
    /\ mainpc = "ran"
    /\ mainpc' = "exited"
    /\ exitCode' = IF runResult = "throw" THEN "abort" ELSE ExitCode(runResult)
    /\ UNCHANGED runResult

MainIdle ==
    /\ mainpc = "off"
    /\ runResult = "none"
    /\ exitCode = "none"

\* No dataset operator is in use.
OperatorsIdle ==
    /\ CursorOff
    /\ AppendIdle
    /\ ShuffleIdle
    /\ WsIdle
    /\ RegIdle
    /\ SchemaIdle
    /\ RnnIdle
    /\ LsIdle

DataIdle ==
    /\ OperatorsIdle
    /\ MainIdle

(***************************************************************************)
(* Specifications of the async DAG net.                                    *)
(***************************************************************************)
\* The net after construction: nothing recorded, nothing running.
NetIdle ==
    /\ eventRecorded = [i \in Ops |-> FALSE]
    /\ outstanding = [i \in Ops |-> FALSE]
    /\ hostpc = "idle"
    /\ result = "none"
    /\ success = TRUE
    /\ queue = {}
    /\ parentCount = [i \in Ops |-> 0]
    /\ remaining = 0
    /\ wk = [v \in Ops |-> NotRunning]
    /\ calls = 0
    /\ nrec = [i \in Ops |-> 0]
    /\ failed = FALSE
    /\ synced = {}

\* The plan engine at rest.
PlanIdle ==
    /\ plan = [s \in Steps |-> NoStep]
    /\ fr = [s \in Steps |-> Off]
    /\ blobs = [b \in Blobs |-> "absent"]
    /\ extStop = FALSE
    /\ handleExc = FALSE
    /\ nextSubstep = 0
    /\ gotFailure = FALSE
    /\ firstException = ""
    /\ wkr = <<>>
    /\ aborted = FALSE
    /\ rep = NoReporter

NetInit ==
    /\ dev \in [Ops -> Devices]
    \* the gpu ids are interchangeable: gpu 1 is used only after gpu 0
    /\ \A i \in Ops : dev[i] = 1 => \E j \in Ops : j < i /\ dev[j] = 0
    /\ parents \in [Ops -> SUBSET Ops]
    /\ \A i \in Ops : \A p \in parents[i] : p < i
    /\ NetIdle
    /\ PlanIdle
    /\ DataIdle

NetNext ==
    \/ RunBegin
    \/ RunReturn
    \/ \E w \in Ops :
         \/ Pop(w)
         \/ RunAtCheck(w)
         \/ RunAtWait(w)
         \/ RunAtOp(w)
         \/ RunAtRecord(w)
         \/ WorkerFinish(w)

SpecNet == NetInit /\ [][NetNext]_vars

RunAtNext ==
    \/ RunBegin
    \/ AnyRunReturn
    \/ \E v \in Ops :
         \/ CallRunAt(v)
         \/ CallReturn(v)
         \/ RunAtCheck(v)
         \/ RunAtWait(v)
         \/ RunAtOp(v)
         \/ RunAtRecord(v)

SpecRunAt == NetInit /\ [][RunAtNext]_vars

(***************************************************************************)
(* Specification of the plan engine: RunPlan on a plan with one top step.  *)
(***************************************************************************)
PlanStart ==
    /\ plan \in Plans
    /\ fr = [s \in Steps |-> IF s = "R" THEN Entering ELSE Off]
    /\ blobs \in [Blobs -> {"absent", "uninit", "false", "true"}]
    /\ blobs["s2"] \in {"false", "true"}
    \* a blob that no step reads, and the policy flag without worker threads,
    \* make no difference
    /\ \A b \in Blobs \ StopBlobs : blobs[b] = "false"
    /\ handleExc \in BOOLEAN
    /\ ConcurrentMode("R") \/ ~handleExc
    /\ extStop = FALSE
    /\ nextSubstep = 0
    /\ gotFailure = FALSE
    /\ firstException = ""
    /\ wkr = <<>>
    /\ aborted = FALSE
    /\ rep = NoReporter
    \* no net of the plan is an async DAG net under observation
    /\ dev = [i \in Ops |-> CPU]
    /\ parents = [i \in Ops |-> {}]
    /\ NetIdle

PlanInit ==
    /\ PlanStart
    /\ DataIdle

PlanNext ==
    \/ Interrupt
    \/ \E s \in Steps : Enter(s) \/ Loop(s) \/ Body(s) \/ Check(s) \/ Resume(s) \/ Join(s)
    \/ \E j \in 1..Cardinality(Steps) : WFetch(j) \/ WTest(j) \/ WAfter(j)

SpecPlan == PlanInit /\ [][PlanNext]_vars

(***************************************************************************)
(* Specification of the cursor: threads that read batches and reset.       *)
(***************************************************************************)
\* No net and no plan is running.
CoreIdle ==
    /\ dev = [i \in Ops |-> CPU]
    /\ parents = [i \in Ops |-> {}]
    /\ NetIdle
    /\ PlanIdle

\* Nothing but the cursor operators is in use.
OthersIdle ==
    /\ CoreIdle
    /\ AppendIdle
    /\ ShuffleIdle
    /\ WsIdle
    /\ RegIdle
    /\ SchemaIdle
    /\ RnnIdle
    /\ LsIdle
    /\ MainIdle

CursorInit ==
    /\ data \in Datasets
    /\ perm = <<>>
    /\ CursorIdle
    /\ OthersIdle

CursorNext ==
    \E t \in Threads :
        \/ RnbLock(t) \/ RnbCapture(t) \/ RnbAdvance(t) \/ RnbGather(t)
        \/ ResetLock(t) \/ ResetClear(t)

SpecCursor == CursorInit /\ [][CursorNext]_vars

(***************************************************************************)
(* Specification of ComputeOffset next to the other cursor operators.      *)
(***************************************************************************)
OffsetNext ==
    \E t \in Threads :
        \/ CoStart(t) \/ CoAssign(t) \/ CoCopy(t) \/ CoAdvance(t) \/ CoEnd(t)
        \/ RnbLock(t) \/ RnbCapture(t) \/ RnbAdvance(t) \/ RnbGather(t)
        \/ ResetLock(t) \/ ResetClear(t)

\* The datasets of the ComputeOffset runs: the generated ones, which give
\* matrices of up to MaxTop + 1 rows.
OffsetDatasets == {d \in Datasets : Len(d.a) <= MaxTop}

OffsetInit ==
    /\ data \in OffsetDatasets
    /\ perm = <<>>
    /\ CursorIdle
    /\ OthersIdle

SpecOffset == OffsetInit /\ [][OffsetNext]_vars

(***************************************************************************)
(* Specification of ReadRandomBatch: threads that read random batches.     *)
(***************************************************************************)
RandomInit ==
    /\ data \in Datasets
    /\ perm \in Perms(Len(data.a))
    /\ CursorIdle
    /\ OthersIdle

RandomNext ==
    \E t \in Threads : RrbLock(t) \/ RrbReserve(t) \/ RrbGather(t)

SpecRandom == RandomInit /\ [][RandomNext]_vars

(***************************************************************************)
(* Specifications of Append and of AtomicAppend.                           *)
(***************************************************************************)
AppendInit ==
    /\ CoreIdle
    /\ DataIdle

AppendNext == \E f \in 1..NumFields : AppendOp(f)

SpecAppend == AppendInit /\ [][AppendNext]_vars

AtomicInit ==
    /\ CoreIdle
    /\ DataIdle

AtomicNext == \E t \in Threads : AaLock(t) \/ AaCheck(t) \/ AaCopy(t)

SpecAtomic == AtomicInit /\ [][AtomicNext]_vars

(***************************************************************************)
(* Specification of SortAndShuffle: one run on any accepted or rejected    *)
(* arguments.                                                              *)
(***************************************************************************)
ShuffleInit ==
    /\ CoreIdle
    /\ DataIdle

ShuffleNext == ShStart \/ ShWindow \/ ShBatches \/ ShCopy

SpecShuffle == ShuffleInit /\ [][ShuffleNext]_vars

(***************************************************************************)
(* Specification of the workspaces: CreateBlob and CreateNet calls in any   *)
(* order.                                                                  *)
(***************************************************************************)
WsInit ==
    /\ CoreIdle
    /\ DataIdle

WsNext ==
    \/ \E w \in Workspaces, name \in Names : CreateBlob(w, name)
    \/ \E w \in Workspaces, name \in NetNames : CnBegin(w, name)
    \/ CnConstruct

SpecWorkspace == WsInit /\ [][WsNext]_vars

(***************************************************************************)
(* Specification of the net map: CreateNet, DeleteNet, RunNet and the      *)
(* steps of RunPlan on the root workspace.                                 *)
(***************************************************************************)
NetMapInit ==
    /\ CoreIdle
    /\ DataIdle

NetMapNext ==
    \/ \E name \in NetNames : CnBegin("root", name)
    \/ CnConstruct
    \/ \E name \in NetNames : DeleteNet("root", name)
    \/ \E name \in NetNames : RunNet("root", name)
    \/ \E report \in NetNames \cup {""}, network \in NetNames :
          StepLookup("root", report, network)

SpecNetMap == NetMapInit /\ [][NetMapNext]_vars

(***************************************************************************)
(* Specification of the registry: threads that register keys.              *)
(***************************************************************************)
RegInit ==
    /\ CoreIdle
    /\ DataIdle

RegNext ==
    \E t \in Threads : RegLock(t) \/ RegStore(t) \/ HelpBegin(t) \/ HelpEnd(t)

SpecRegistry == RegInit /\ [][RegNext]_vars

(***************************************************************************)
(* Specification of the operator schema: settings and verifications.       *)
(***************************************************************************)
SchemaInit ==
    /\ CoreIdle
    /\ DataIdle

SchemaNext ==
    \/ \E n \in Arities : NumInputs(n) \/ NumOutputs(n)
    \/ \E inplace \in PairSets : AllowInplace(inplace) \/ EnforceInplace(inplace)
    \/ \E def \in OperatorDefs : Verify(def)

SpecSchema == SchemaInit /\ [][SchemaNext]_vars

(***************************************************************************)
(* Specification of the recurrent network: forward runs.                   *)
(***************************************************************************)
RnnInit ==
    /\ CoreIdle
    /\ DataIdle

RnnNext ==
    \/ RnnBegin
    \/ RnnUpdateTimestep
    \/ RnnRunStep
    \/ RnnEnd

SpecRnn == RnnInit /\ [][RnnNext]_vars

(***************************************************************************)
(* Specification of the scratch workspaces: forward runs of operators that *)
(* share them, and backward passes.                                        *)
(***************************************************************************)
ScratchInit ==
    /\ CoreIdle
    /\ DataIdle

ScratchNext ==
    \/ RnnBeginShared
    \/ RnnUpdateTimestep
    \/ RnnRunStep
    \/ RnnEnsureTimestep
    \/ RnnEnd
    \/ GradBegin
    \/ GradStep
    \/ GradEnd

SpecScratch == ScratchInit /\ [][ScratchNext]_vars

(***************************************************************************)
(* Specification of advance: ReadNextBatch on tensors that are replaced by *)
(* shorter ones between the runs of the operator, so that the offsets of   *)
(* the cursor can lie beyond them.                                         *)
(***************************************************************************)
AllButLast(q) == SubSeq(q, 1, Len(q) - 1)

\* The tensors of one field lose their last row.
Truncations(d) ==
    {[d EXCEPT !.a = AllButLast(@)] : x \in {1} \cap DOMAIN d.a}
      \cup {[d EXCEPT !.lens = AllButLast(@)] : x \in {1} \cap DOMAIN d.lens}
      \cup {[d EXCEPT !.vals = AllButLast(@)] : x \in {1} \cap DOMAIN d.vals}

\* Another operator rewrites a field blob while no cursor operator runs.
Refill ==
    /\ UNCHANGED nonCursorVars
    /\ ~crashed
    /\ \A t \in Threads : th[t].pc = "idle"
    /\ offsets # <<>>
    /\ data' \in Truncations(data)
    /\ UNCHANGED <<perm, offsets, mutex, th, taken, fresh, wasReset, batches,
                   crashed>>

AdvanceInit ==
    /\ data \in Datasets \ {Example}
    /\ perm = <<>>
    /\ CursorIdle
    /\ OthersIdle

\* One thread runs the operator: advance runs under the mutex of the
\* cursor, and the threads of the other specifications add nothing to it.
AdvanceNext ==
    \/ Refill
    \/ RnbLock(1) \/ RnbCapture(1) \/ RnbAdvance(1) \/ RnbGather(1)

SpecAdvance == AdvanceInit /\ [][AdvanceNext]_vars

(***************************************************************************)
(* Specification of Load and Save: a database written by Save or by        *)
(* another party, and loads from it.                                       *)
(***************************************************************************)
LsInit ==
    /\ CoreIdle
    /\ DataIdle

LsNext ==
    \/ Save
    \/ \E r \in ForeignRecords : Put(r)
    \/ LoadBegin
    \/ LoadRecord
    \/ LoadCheck

SpecLoadSave == LsInit /\ [][LsNext]_vars

(***************************************************************************)
(* Specification of the Reporter: a root step of networks that declares a  *)
(* report_net, with or without report_interval.                            *)
(***************************************************************************)
ReportPlans == {p \in LeafPlans : p["R"].stop = "" /\ p["R"].once = "unset"}

ReportInit ==
    /\ plan \in ReportPlans
    /\ fr = [s \in Steps |-> IF s = "R" THEN Entering ELSE Off]
    /\ blobs = [b \in Blobs |-> "false"]
    /\ handleExc = FALSE
    /\ extStop = FALSE
    /\ nextSubstep = 0
    /\ gotFailure = FALSE
    /\ firstException = ""
    /\ wkr = <<>>
    /\ aborted = FALSE
    /\ \E n \in {"n1", "nx"} : \E i \in BOOLEAN :
          rep = [NoReporter EXCEPT !.net = n, !.interval = i, !.main = "decl"]
    /\ dev = [i \in Ops |-> CPU]
    /\ parents = [i \in Ops |-> {}]
    /\ NetIdle
    /\ DataIdle

ReportNext ==
    \/ RepStart
    \/ RepBody
    \/ RepBegin
    \/ RepWake
    \/ RepRun
    \/ RepTest
    \/ RepDtorBegin
    \/ RepDtorDone
    \/ RepDtorNotify
    \/ RepDtorJoin

\* The threads run; the destructor, blocked on report_mutex, gets it in one
\* of the waits of the reporter thread, each as long as the interval.
SpecReport ==
    /\ ReportInit
    /\ [][ReportNext]_vars
    /\ WF_vars(RepBegin) /\ WF_vars(RepWake) /\ WF_vars(RepRun)
    /\ WF_vars(RepTest) /\ WF_vars(RepDtorBegin) /\ SF_vars(RepDtorDone)
    /\ WF_vars(RepDtorNotify) /\ WF_vars(RepDtorJoin)

(***************************************************************************)
(* Specification of the plan runner: main around the plan engine.          *)
(***************************************************************************)
MainInit ==
    /\ PlanStart
    /\ OperatorsIdle
    /\ mainpc = "load"
    /\ runResult = "none"
    /\ exitCode = "none"

MainRunPlan ==
    /\ mainpc = "run"
    /\ PlanNext

MainNext ==
    \/ MainLoad
    \/ MainRunPlan
    \/ MainRunPlanReturn
    \/ MainAbort
    \/ MainReturn

SpecMain == MainInit /\ [][MainNext]_vars

(***************************************************************************)
(* Properties of the async DAG net.                                        *)
(***************************************************************************)
\* Run has returned to its caller.
Returned == hostpc = "idle" /\ result # "none"

\* RunAt on the chain of v has invoked, or is about to invoke, an operator.
Invoking(v) == wk[v].pc = "ops" \/ wk[v].i > 1

\* C1: under the scheduler of DAGNetBase, whenever RunAt invokes an operator
\* of the chain of v, Event::record has completed in the current Run for the
\* event of every parent u of v (and u is marked in eventRecorded_), for
\* every edge u -> v, the edges across devices included.
C1_ParentRecordedBeforeChild ==
    \A v \in Ops : Invoking(v) =>
        \A u \in parents[v] : nrec[u] >= 1 /\ eventRecorded[u]

\* A chain with a parent on another device has invoked its operators.
C1_Witness ==
    \E v \in Ops : \E u \in parents[v] :
        dev[u] # dev[v] /\ dev[u] # CPU /\ wk[v].pc = "record"

\* C2: whenever Run has returned, with true or with false, no event of the
\* net has its outstanding flag set.
C2_NoOutstandingAfterRun ==
    Returned => \A e \in Ops : ~outstanding[e]

\* Run has returned after the host waited on an event that was still
\* outstanding.
C2_Witness == Returned /\ synced # {}

\* C3: Run starts its chains with every recorded flag cleared; a RunAt that
\* returns normally has marked its sink and its record was the first one of
\* that event in the current Run; a second record of the same event in one
\* Run ends that RunAt with an error, and the Run reports false.
C3_RecordedAtMostOnce ==
    /\ hostpc = "dag" /\ calls = 0 => \A e \in Ops : ~eventRecorded[e]
    /\ \A v \in Ops : wk[v].pc = "ret" =>
          /\ eventRecorded[Back(ChainFrom(v))]
          /\ nrec[Back(ChainFrom(v))] = 1
    /\ \A v \in ChainStarts : nrec[Back(ChainFrom(v))] >= 2 =>
          \/ wk[v].pc = "throw"
          \/ ~success
    /\ \A e \in Ops : Returned /\ nrec[e] >= 2 => result = "false"

\* Run has returned false after the event of one sink was recorded twice.
C3_Witness == Returned /\ result = "false" /\ \E e \in Ops : nrec[e] = 2

\* C4: when an operator has returned false or thrown during a Run, the Run
\* returns false, and it returns only after the host has waited on the
\* events that were outstanding.
C4_FailureStillSyncs ==
    Returned /\ failed =>
        /\ result = "false"
        /\ \A e \in Ops : ~outstanding[e]

\* Run has returned false after a failure, with an event synchronized.
C4_Witness == Returned /\ failed /\ result = "false" /\ synced # {}

\* No parent of the first operator of the chain of v is recorded.
NoParentRecorded(v) ==
    parents[v] # {} /\ \A p \in parents[v] : ~eventRecorded[p]

\* C5: a RunAt on a chain whose first operator has parents none of which
\* is recorded stops at the enforce: it invokes no operator, changes no
\* event and no recorded flag, ends with an error, and the Run that made
\* the call reports false.
C5_NoParentRecordedFails ==
    /\ [](\A v \in ChainStarts :
            NoParentRecorded(v) /\ wk[v].pc # "idle" =>
                wk[v].pc \in {"check", "throw"} /\ wk[v].i = 0)
    /\ [][\A v \in ChainStarts :
            /\ wk[v].pc = "check" /\ NoParentRecorded(v) /\ wk'[v] # wk[v] =>
                  /\ wk'[v].pc = "throw"
                  /\ UNCHANGED <<eventRecorded, outstanding, nrec, failed>>
            /\ wk[v].pc = "throw" /\ wk'[v].pc = "idle" => ~success']_vars

\* A RunAt was refused because none of the parents was recorded.
C5_Witness ==
    \E v \in ChainStarts :
        NoParentRecorded(v) /\ wk[v].pc = "throw" /\ wk[v].i = 0


(***************************************************************************)
(* Claims about the plan engine.                                           *)
(***************************************************************************)
RECURSIVE Rep(_, _)
Rep(q, k) == IF k = 0 THEN <<>> ELSE q \o Rep(q, k - 1)

Count(t, x) == Cardinality({i \in 1..Len(t) : t[i] = x})

\* The step is one the engine accepts: networks or substeps, not both, and
\* every network it lists is in the workspace.
WellFormed(c) ==
    /\ c.subs = <<>> \/ c.nets = <<>>
    /\ \A i \in 1..Len(c.nets) : c.nets[i] \in NetMap

\* k of the claims: num_iter, 1 when it is unset.
NumIter(c) == IF c.hasNum THEN c.num ELSE 1

EveryRunSucceeded(s) == fr[s].why \notin {"run", "substep", "workers"}

\* The body of s has run exactly k times, in order.
RanTimes(s, k) ==
    LET c == plan[s]
        t == fr[s].trace
    IN  IF c.subs = <<>> THEN t = Rep(c.nets, k)
        ELSE IF ~ConcurrentMode(s) THEN t = Rep(c.subs, k)
        ELSE /\ Len(t) = k * Len(c.subs)
             /\ \A i \in 1..Len(c.subs) : Count(t, c.subs[i]) = k

CountedStep(s) ==
    /\ fr[s].pc = "done"
    /\ plan[s].stop = ""
    /\ WellFormed(plan[s])
    /\ EveryRunSucceeded(s)
    /\ ~fr[s].extFalse

\* C6 as stated: a step without should_stop_blob whose num_iter is k runs
\* its body exactly k times and returns true, when every run succeeds and
\* the external predicate stays true.
C6_Original ==
    \A s \in Steps :
        CountedStep(s) => fr[s].res = "true" /\ RanTimes(s, NumIter(plan[s]))

\* C6 (amended): a step that sets neither should_stop_blob nor only_once and
\* whose num_iter is k (1 when unset, 0 allowed) runs its body exactly k
\* times, each network or substep in order, and returns true, when every run
\* succeeds and the external predicate stays true.
C6_RunsExactlyK ==
    \A s \in Steps :
        CountedStep(s) /\ plan[s].once = "unset"
            => fr[s].res = "true" /\ RanTimes(s, NumIter(plan[s]))

C6_Witness ==
    /\ CountedStep("R") /\ plan["R"].once = "unset"
    /\ plan["R"].hasNum /\ plan["R"].num = MaxIter
    /\ Len(plan["R"].nets) = 2
    /\ Len(fr["R"].trace) = 2 * MaxIter

\* The step reads should_stop_blob, the blob held true when it started, and
\* the engine accepts the step.
StartedStopped(s) ==
    /\ plan[s].stop # ""
    /\ ~plan[s].hasNum
    /\ WellFormed(plan[s])
    /\ fr[s].stopAtEntry

\* C7 as stated: a step whose should_stop_blob holds true when it starts
\* runs none of its networks or substeps and succeeds.
C7_Original ==
    \A s \in Steps :
        StartedStopped(s) =>
            /\ fr[s].trace = <<>>
            /\ fr[s].pc = "done" => fr[s].res = "true"

\* C7 (amended): the blob is not read before the first iteration.  A step
\* whose should_stop_blob holds true when it starts still runs its first
\* network or substep (every substep of the first iteration when they run
\* concurrently) unless the external predicate is false; if that run
\* succeeds and the blob reads true right after it, the step returns true
\* with nothing else run.
C7_FirstRunThenStop ==
    \A s \in Steps :
        StartedStopped(s) =>
            /\ ( /\ fr[s].pc = "done"
                 /\ ~fr[s].extFalse
                 /\ plan[s].nets # <<>> \/ plan[s].subs # <<>> )
                   => fr[s].trace # <<>>
            /\ fr[s].firstCheck = "true" =>
                   /\ fr[s].pc = "done"
                   /\ fr[s].res = "true"
                   /\ Len(fr[s].trace) =
                        IF ConcurrentMode(s) THEN Len(plan[s].subs) ELSE 1

C7_Witness ==
    /\ StartedStopped("R")
    /\ Len(plan["R"].nets) = 2
    /\ fr["R"].firstCheck = "true"
    /\ fr["R"].pc = "done"
    /\ fr["R"].trace = <<"n1">>

\* C8: a step that sets both num_iter and should_stop_blob is rejected
\* before any of its networks or substeps runs; without should_stop_blob the
\* number of iterations is num_iter, 1 when it is unset.
C8_OneGovernor ==
    \A s \in Steps :
        LET c == plan[s]
            f == fr[s]
        IN  /\ (c.hasNum /\ c.stop # "" /\ f.pc \notin {"off", "enter"}) =>
                  /\ f.pc = "done"
                  /\ f.res \in {"throw", "false"}
                  /\ (WellFormed(c) => f.res = "throw")
                  /\ f.trace = <<>>
            /\ (c.stop = "" /\ f.pc # "off") =>
                  /\ f.iter <= NumIter(c)
                  /\ (f.pc = "done" /\ f.why = "loop" /\ ~f.extFalse)
                        => f.iter = NumIter(c)

C8_Witness ==
    /\ plan["R"].hasNum /\ plan["R"].stop # ""
    /\ blobs[plan["R"].stop] = "false"
    /\ plan["R"].nets = <<"n1">>
    /\ fr["R"].pc = "done" /\ fr["R"].res = "throw"


\* The substep of p that its sequential loop is waiting for.
Current(p) == plan[p].subs[fr[p].idx]

\* C9: when the should_stop_blob of a step reads true right after one of its
\* networks or substeps, the step returns true at once with nothing further
\* run; a parent whose substep has returned true, stopped or not, goes on to
\* its next substep or iteration unless its own blob reads true.
C9_StopBreaksOwnStepOnly ==
    [][\A s \in Steps :
        /\ (fr[s].pc = "check" /\ GetShouldStop(s) /\ fr'[s] # fr[s]) =>
              /\ fr'[s].pc = "done" /\ fr'[s].res = "true"
              /\ fr'[s].trace = fr[s].trace /\ fr'[s].iter = fr[s].iter
        /\ (fr[s].pc = "call" /\ fr'[s] # fr[s] /\ fr[Current(s)].res = "true") =>
              IF GetShouldStop(s)
              THEN /\ fr'[s].pc = "done" /\ fr'[s].res = "true"
                   /\ fr'[s].trace = fr[s].trace
              ELSE IF fr[s].idx < Len(plan[s].subs)
              THEN /\ fr'[s].pc = "call" /\ fr'[s].idx = fr[s].idx + 1
                   /\ fr'[Current(s)'].pc = "enter"
              ELSE fr'[s].pc = "loop" /\ fr'[s].iter = Inc(fr[s].iter)
        /\ (fr[s].pc = "done" /\ fr'[s] # fr[s]) => fr'[s] = Off
      ]_vars

\* Substep A was stopped by its blob before its second network, and R has
\* gone on to substep B.
C9_Witness ==
    /\ fr["R"].sawStop /\ ~GetShouldStop("R")
    /\ fr["R"].pc = "call" /\ fr["R"].iter = 0 /\ fr["R"].idx = 2
    /\ fr["R"].trace = <<"A", "B">>
    /\ fr["B"].pc = "enter"

C11_Original ==
    /\ ~aborted
    /\ \A p \in Steps :
          (fr[p].pc = "done" /\ fr[p].why = "workers" /\ firstException # "") =>
              fr[p].res = IF handleExc THEN "false" ELSE "throw"

\* C11 (amended): the description of the first exception is kept.  With the
\* default policy the worker rethrows inside its thread, which terminates
\* the process before the step returns; with the policy flag set the workers
\* exit, and after the join the step throws an error that carries the first
\* exception (it returns false only when no substep threw).
C11_ExceptionPolicy ==
    /\ [](/\ aborted => ~handleExc /\ firstException # "" /\ Joining # {}
          /\ (firstException # "" /\ ~handleExc) => aborted
          /\ \A p \in Steps :
                (fr[p].pc = "done" /\ fr[p].why = "workers") =>
                    IF firstException # ""
                    THEN handleExc /\ fr[p].res = "throw"
                    ELSE fr[p].res = "false")
    /\ [][(firstException # "" /\ Joining # {}) =>
              firstException' = firstException]_vars

\* Both substeps threw with the policy flag set, and the step has thrown
\* after the join.
C11_Witness ==
    /\ handleExc
    /\ fr["R"].pc = "done" /\ fr["R"].why = "workers" /\ fr["R"].res = "throw"
    /\ firstException = "B"
    /\ Len(fr["R"].trace) = 2


(***************************************************************************)
(* Claims about the dataset cursor.                                        *)
(***************************************************************************)
TopLimit == Len(data.a)

\* The top-level indices of a batch.
TopRange(b) == {i \in 0..(TopLimit - 1) : b.off[1] <= i /\ i < b.off[1] + b.sizes[1]}

AllIdle == \A t \in Threads : th[t].pc = "idle"

AtEnd == offsets # <<>> /\ offsets[1] = TopLimit

\* C12: with concurrent ReadNextBatch calls on fixed data every top-level
\* index is returned by at most one call, and by exactly one once the cursor
\* is at the end and every call has returned.
C12_EachIndexOnce ==
    ~wasReset =>
        \A i \in 0..(TopLimit - 1) :
            LET n == Cardinality({b \in batches : i \in TopRange(b)})
            IN  n <= 1 /\ (AllIdle /\ AtEnd => n = 1)

C12_Witness ==
    /\ ~wasReset
    /\ TopLimit = MaxTop
    /\ AllIdle /\ AtEnd
    /\ Cardinality(batches) = 2
    /\ \A b \in batches : b.sizes[1] > 0

\* The rows of field f at the positions lo+1 .. hi.
Rows(f, lo, hi) == [i \in 1..(hi - lo) |-> f[lo + i]]

\* C13: successive ReadNextBatch(n) calls tile the dataset.  The top-level
\* size is min(n, remaining), the size of the nested domain is the sum of
\* the lengths covered, every field of the batch is that contiguous slice,
\* and a batch starts where the call before it ended.  The scenario with
\* a = [1,2,3,4], b:lengths = [2,0,1,3], b:values = [10,11,20,30,31,32] and
\* n = 2 gives the two batches of the claim.
C13_BatchesTile ==
    ~wasReset =>
        /\ \A b \in batches :
              LET lo == b.off[1]
                  hi == b.off[1] + b.sizes[1]
              IN  /\ b.sizes[1] = Min(b.n, TopLimit - lo)
                  /\ b.off[2] = SumTo(data.lens, lo)
                  /\ b.sizes[2] = SumTo(data.lens, hi) - SumTo(data.lens, lo)
                  /\ b.a = Rows(data.a, lo, hi)
                  /\ b.lens = Rows(data.lens, lo, hi)
                  /\ b.vals = Rows(data.vals, SumTo(data.lens, lo),
                                   SumTo(data.lens, hi))
                  /\ b.seq = 1 => lo = 0
        /\ \A b1, b2 \in batches :
              b2.seq = b1.seq + 1 => b2.off[1] = b1.off[1] + b1.sizes[1]
        /\ data = Example =>
              \A b \in batches :
                  /\ (b.seq = 1 /\ b.n = 2) =>
                        /\ b.a = <<1, 2>>
                        /\ b.lens = <<2, 0>>
                        /\ b.vals = <<10, 11>>
                  /\ (b.seq = 2 /\ b.n = 2 /\ b.off[1] = 2) =>
                        /\ b.a = <<3, 4>>
                        /\ b.lens = <<1, 3>>
                        /\ b.vals = <<20, 30, 31, 32>>

C13_Witness ==
    /\ data = Example
    /\ ~wasReset
    /\ \E b1, b2 \in batches :
          /\ b1.seq = 1 /\ b1.n = 2
          /\ b2.seq = 2 /\ b2.n = 2 /\ b2.vals = <<20, 30, 31, 32>>

\* C16: with ReadNextBatch and ResetCursor in parallel the cursor offsets
\* are empty or within the limits of their domains; a batch is the slice at
\* the offsets its call captured while it held the mutex; the first read
\* after a reset starts at top-level index 0; and at the end of the data a
\* read returns an empty batch without an error.
C16_ReadAndResetSafe ==
    /\ \/ offsets = <<>>
       \/ /\ Len(offsets) = 2
          /\ \A d \in 1..2 : 0 <= offsets[d] /\ offsets[d] <= Limits(data)[d]
    /\ \A t \in Threads :
          /\ th[t].pc \in {"locked", "captured"} => mutex = t
          /\ th[t].pc = "captured" => th[t].cap = offsets
          /\ (th[t].pc = "gather" /\ th[t].first) => th[t].cap = Zeros
          /\ th[t].res \notin {"throw", "abort"}
    /\ ~crashed
    /\ \A b \in batches :
          /\ b.first => b.off = Zeros
          /\ b.a = Slice(data.a, b.off[1], b.sizes[1])
          /\ b.vals = Slice(data.vals, b.off[2], b.sizes[2])
          /\ b.off[1] = TopLimit => b.sizes = Zeros /\ b.a = <<>> /\ b.vals = <<>>

\* A read, a reset, and a read that starts at index 0 again.
C16_Witness ==
    /\ wasReset
    /\ \E b1, b3 \in batches :
          /\ b1.seq = 1 /\ b1.sizes[1] > 0
          /\ b3.seq = 3 /\ b3.first /\ b3.off = Zeros /\ b3.sizes[1] > 0


\* The top-level indices that the positions lo+1 .. hi of the idx blob name.
PermRows(lo, hi) == [i \in 1..(hi - lo) |-> perm[lo + i]]

RECURSIVE ValsOf(_)
\* The values of the rows named by a sequence of top-level indices.
ValsOf(rows) ==
    IF rows = <<>> THEN <<>>
    ELSE Rows(data.vals, SumTo(data.lens, rows[1]), SumTo(data.lens, rows[1] + 1))
             \o ValsOf(Tail(rows))

\* C14: concurrent ReadRandomBatch(n) calls reserve consecutive, disjoint
\* ranges [cur, cur + n) of the idx blob while they hold the mutex; every
\* position is gathered by at most one call, by exactly one once the cursor
\* has passed the end and every call has returned; a call whose range runs
\* past the end gathers only the positions that exist.
C14_RandomRangesDisjoint ==
    /\ \A t \in Threads : th[t].pc = "locked" => mutex = t
    /\ \A b \in batches :
          LET hi == Min(b.idx + b.n, Len(perm))
              lo == Min(b.idx, hi)
          IN  /\ b.pos = {x \in 0..(Len(perm) - 1) : b.idx <= x /\ x < b.idx + b.n}
              /\ b.a = [i \in 1..(hi - lo) |-> data.a[perm[lo + i] + 1]]
              /\ b.vals = ValsOf(PermRows(lo, hi))
              /\ b.seq = 1 => b.idx = 0
    /\ \A b1, b2 \in batches :
          /\ b2.seq = b1.seq + 1 => b2.idx = b1.idx + b1.n
          /\ b1 # b2 => b1.pos \cap b2.pos = {}
    /\ (AllIdle /\ offsets # <<>> /\ offsets[1] >= Len(perm)) =>
          \A x \in 0..(Len(perm) - 1) : \E b \in batches : x \in b.pos

\* The calls have covered the idx blob of the example, four positions in
\* reverse order; the last one ran past its end.
C14_Witness ==
    /\ Len(perm) = 4 /\ perm[1] = 3
    /\ AllIdle
    /\ \E b1, b2 \in batches :
          /\ b1.idx = 1 /\ b1.n = 2
          /\ b2.idx = 3 /\ b2.n = 2 /\ b2.pos = {3}

\* C15: ComputeOffset is thread safe.  Next to ReadNextBatch, ResetCursor
\* or another ComputeOffset on the same cursor, a ComputeOffset that started
\* on a reset cursor touches the offsets only while it holds the mutex, and
\* ends without an error with the matrix whose row k holds the offsets of
\* every domain at top-level position k.
C15_ComputeOffsetThreadSafe ==
    /\ ~crashed
    /\ \A t \in Threads :
          /\ th[t].pc \in {"co", "co_copy", "co_adv", "co_end"} => mutex = t
          /\ (th[t].pc = "idle" /\ th[t].op = "offset" /\ th[t].first) =>
                /\ th[t].res = "ok"
                /\ th[t].mat = OffsetsMatrix(data)

RECURSIVE RowsOfCalls(_, _)
\* The elements the calls of q wrote to field i, call after call.
RowsOfCalls(q, i) ==
    IF q = <<>> THEN <<>> ELSE Head(q).src[i].data \o RowsOfCalls(Tail(q), i)

\* C17: an AtomicAppend call whose check of some field fails leaves every
\* destination as it found it; and once the calls that share the mutex have
\* returned, every field holds the elements of the calls that copied, call
\* after call, in one order that is the same for all fields.
C17_AtomicAppendAllOrNothing ==
    /\ \A t \in Threads :
          ath[t].res = "throw" => ath[t].after = ath[t].before
    /\ (\A t \in Threads : ath[t].pc = "idle") =>
          \A i \in 1..NumFields : fields[i].data = RowsOfCalls(done, i)

\* Two calls of different threads copied and a third one was rejected at its
\* second field after the destinations were filled.
C17_Witness ==
    /\ \A t \in Threads : ath[t].pc = "idle"
    /\ Len(done) = 2
    /\ \E t \in Threads :
          /\ ath[t].res = "throw"
          /\ Size(ath[t].before[1]) > 0
          /\ ath[t].src[1] = Tensor("int", <<1>>, ath[t].id)
          /\ ath[t].src[2] = Tensor("float", <<1>>, ath[t].id)
    /\ \E t \in Threads : ath[t].res = "ok"

\* C18: a successful Append leaves in dst the elements it had followed by
\* those of src, so size(dst) grows by size(src) and the trailing dims are
\* those of src; an Append to a non-empty dst whose element type, rank or
\* trailing dims differ from those of src is rejected and leaves dst as it
\* was.
C18_AppendExtends ==
    LET f == lastAppend.f
        before == lastAppend.before
        src == lastAppend.src
    IN  /\ lastAppend.res = "ok" =>
              /\ fields[f].data = before.data \o src.data
              /\ Size(fields[f]) = Size(before) + Size(src)
              /\ Len(fields[f].data) = Size(fields[f])
              /\ TrailingDims(fields[f]) = TrailingDims(src)
        /\ lastAppend.res = "throw" => fields[f] = before
        /\ ( /\ lastAppend.res # "none"
             /\ Size(before) > 0
             /\ \/ before.meta # src.meta
                \/ Len(before.dims) # Len(src.dims)
                \/ TrailingDims(before) # TrailingDims(src) ) =>
              lastAppend.res = "throw"

\* A matrix of two rows was appended to a matrix of one row.
C18_Witness ==
    /\ lastAppend.res = "ok"
    /\ lastAppend.before.dims = <<1, 2>>
    /\ lastAppend.src.dims = <<2, 2>>
    /\ fields[lastAppend.f].dims = <<3, 2>>

\* C19: whenever batch_size and shuffle_size are positive and their product
\* is at most size, SortAndShuffle is accepted and its output holds every
\* index of [0, size) exactly once, also when size is no multiple of
\* batch_size or of batch_size * shuffle_size.
C19_ShuffleIsPermutation ==
    /\ shuf.res = "ok" =>
          /\ Len(shuf.out) = shuf.size
          /\ \A v \in 0..(shuf.size - 1) :
                Cardinality({p \in 1..Len(shuf.out) : shuf.out[p] = v}) = 1
    /\ ( /\ shuf.pc = "done"
         /\ shuf.bs > 0 /\ shuf.ss > 0
         /\ shuf.bs * shuf.ss <= shuf.size ) => shuf.res = "ok"

\* Four sorted rows in batches of three: one batch was shuffled, one index
\* was left over, and the output is not the identity.
C19_Witness ==
    /\ shuf.pc = "done" /\ shuf.res = "ok"
    /\ shuf.size = 4 /\ shuf.bs = 3 /\ shuf.ss = 1
    /\ shuf.sorted /\ shuf.key = <<1, 0, 1, 0>>
    /\ shuf.out[1] # 0

\* C20: CreateBlob returns the blob that is visible under the name (here or
\* through the parents) and allocates nothing when there is one; otherwise
\* it allocates exactly one blob, in this workspace; and every later call
\* with the same name on the same workspace finds the blob the first call
\* returned.
C20_CreateBlobIdempotent ==
    /\ lastCreate.w # "none" =>
          LET w == lastCreate.w
              name == lastCreate.name
          IN  /\ lastCreate.ret # 0
              /\ lastCreate.ret = GetBlob(w, name)
              /\ lastCreate.ret = firstRet[w][name]
              /\ lastCreate.seen =>
                    /\ lastCreate.ret = lastCreate.was
                    /\ nblobs = lastCreate.had
              /\ ~lastCreate.seen =>
                    /\ nblobs = lastCreate.had + 1
                    /\ blobMap[w][name] = lastCreate.ret
                    /\ \A v \in Workspaces, n \in Names :
                          <<v, n>> # <<w, name>> => blobMap[v][n] # lastCreate.ret
    /\ \A w \in Workspaces, name \in Names :
          firstRet[w][name] # 0 => GetBlob(w, name) = firstRet[w][name]
    /\ Cardinality({<<w, name>> \in Workspaces \X Names : blobMap[w][name] # 0})
          = nblobs

\* The leaf asked again for a blob that only the root holds, after two
\* blobs were created.
C20_Witness ==
    /\ lastCreate.w = "leaf" /\ lastCreate.seen
    /\ blobMap["leaf"][lastCreate.name] = 0
    /\ blobMap["mid"][lastCreate.name] = 0
    /\ lastCreate.ret = blobMap["root"][lastCreate.name]
    /\ nblobs = 2
    /\ creates = 3

\* The workspace itself and the parents it reads through.
RECURSIVE Lineage(_)
Lineage(w) == {w} \cup (IF Shared[w] # "none" THEN Lineage(Shared[w]) ELSE {})

\* The workspace a step was invoked on: the one of the CreateBlob call that
\* just returned, or the one of the CreateNet call that runs.
InvokedOn(w) ==
    \/ creates' # creates /\ cn' = cn /\ lastNet' = lastNet /\ lastCreate'.w = w
    \/ cn'.pc = "construct" /\ cn'.w = w
    \/ cn.pc = "construct" /\ cn.w = w
    \/ /\ creates' # creates /\ cn' = cn /\ lastCreate' = lastCreate
       /\ lastNet'.res = "throw" /\ lastNet'.w = w

\* C21: an operation invoked on a workspace changes the blob map and the
\* net map of no other workspace, so a child never adds, removes or replaces
\* an entry of its parent; every blob allocated through a workspace is held
\* by that workspace only; and a lookup returns a blob held by the workspace
\* or by one of its parents, never one held by a child.
C21_ParentReadOnly ==
    /\ [][\A w \in Workspaces :
             InvokedOn(w) =>
                \A v \in Workspaces \ {w} :
                   blobMap'[v] = blobMap[v] /\ netMap'[v] = netMap[v]]_vars
    /\ [](\A w \in Workspaces, name \in Names :
             /\ <<w, name>> \in made <=> blobMap[w][name] # 0
             /\ GetBlob(w, name) # 0 =>
                   \E v \in Lineage(w) : blobMap[v][name] = GetBlob(w, name))

\* The leaf created a blob and a net while the root and the middle workspace
\* hold one blob each; a lookup of the leaf's name on the middle workspace
\* finds nothing.
C21_Witness ==
    /\ blobMap["root"]["x"] # 0
    /\ blobMap["leaf"]["y"] # 0
    /\ blobMap["mid"]["y"] = 0 /\ blobMap["root"]["y"] = 0
    /\ GetBlob("mid", "y") = 0
    /\ netMap["leaf"]["n"] > 0
    /\ lastNet.w = "leaf"

\* How often a name occurs in a list of names.
Listed(q, name) == Cardinality({i \in DOMAIN q : q[i] = name})

\* C22: Blobs() lists every visible name exactly once and no other name, and
\* LocalBlobs() lists exactly the names whose blob was created in the
\* workspace itself, after any sequence of CreateBlob calls on a workspace
\* and on its ancestors.
C22_BlobsListsEachOnce ==
    \A w \in Workspaces, name \in Names :
        /\ Listed(WsBlobs(w), name) = IF GetBlob(w, name) # 0 THEN 1 ELSE 0
        /\ Listed(LocalBlobs(w), name) = IF <<w, name>> \in made THEN 1 ELSE 0

\* C23: CreateNet destroys a prior net of the same name before the new one
\* is constructed; a failed construction returns null and leaves no entry
\* under the name, a successful one leaves the new net there; and no step of
\* a CreateNet call changes the entry of another name or workspace.
C23_CreateNetReplaces ==
    /\ []((cn.pc = "idle" /\ lastNet.res \in {"ok", "null"}) =>
             /\ lastNet.clean
             /\ lastNet.res = "null" =>
                   lastNet.ret = 0 /\ netMap[lastNet.w][lastNet.name] = 0
             /\ lastNet.res = "ok" =>
                   /\ lastNet.ret > 0 /\ lastNet.ret # lastNet.prior
                   /\ netMap[lastNet.w][lastNet.name] = lastNet.ret)
    /\ [][\A w \in Workspaces, name \in NetNames :
             netMap'[w][name] # netMap[w][name] =>
                \/ cn'.pc = "construct" /\ cn'.w = w /\ cn'.name = name
                \/ cn.pc = "construct" /\ cn.w = w /\ cn.name = name]_vars

\* A second net of a name failed to build: the first net of that name is
\* gone, the net of the other name is still there.
C23_Witness ==
    /\ cn.pc = "idle"
    /\ lastNet.res = "null" /\ lastNet.prior > 0
    /\ lastNet.w = "leaf" /\ lastNet.name = "n"
    /\ netMap["leaf"]["n"] = 0
    /\ netMap["leaf"]["m"] > 0

\* C24: registering a key that is already registered ends the process and
\* never replaces the first creator; Create(key) returns null exactly for
\* the keys that were never registered, and Has(key) holds exactly for the
\* registered ones.
C24_DuplicateKeyFailsHard ==
    /\ [](\A k \in Keys :
            /\ Has(k) <=> firstReg[k] # 0
            /\ Create(k) = 0 <=> firstReg[k] = 0
            /\ Create(k) = firstReg[k]
            /\ Cardinality(wins[k]) <= 1)
    /\ [][\A t \in Threads :
            (/\ rth[t].pc = "locked"
             /\ firstReg[rth[t].key] # 0
             /\ (rth'[t] # rth[t] \/ exited' # exited))
            => (exited' /\ registry' = registry)]_vars

\* A second registration of a key ended the process; the key still has its
\* first creator and the other key was never registered.
C24_Witness ==
    /\ exited
    /\ \E t \in Threads, k \in Keys :
         /\ rth[t].pc = "locked"
         /\ rth[t].key = k
         /\ registry[k] = firstReg[k]
         /\ registry[k] # rth[t].creator
         /\ Has(k)
         /\ \E o \in Keys : ~Has(o) /\ Create(o) = 0

\* C25: registration is thread-safe under the mutex: every write to the
\* registry's maps happens while the writer holds the registration mutex,
\* no write damages a map, a key never has two successful registrations, and
\* a finished registration with a help message left the key with its own
\* creator and help message.
C25_RegistrationUnderMutex ==
    /\ \A t \in Threads : rth[t].pc = "writing" => rmutex = t
    /\ ~torn
    /\ \A k \in Keys : Cardinality(wins[k]) <= 1
    /\ \A t \in Threads :
         (rth[t].pc = "idle" /\ rth[t].help)
         => (registry[rth[t].key] = rth[t].creator
             /\ helpMsg[rth[t].key] = rth[t].creator)

C27_ForwardUnroll ==
    /\ rnn.pc = "done" => Len(invoked) = rnn.seqLen
    /\ rnn.pc \in {"loop", "step", "failed"} => Len(invoked) = rnn.t
    /\ rnn.pc = "step" =>
         stepWs[CurrentStepWorkspace(rnn.backward, rnn.t)].timestep = rnn.t
    /\ \A i \in 1..Len(invoked) :
         /\ invoked[i].t = i - 1
         /\ invoked[i].timestep = i - 1
         /\ \A l \in rnn.links :
              \E v \in invoked[i].views :
                /\ v.offset = l.offset /\ v.window = l.window
                /\ v.start = (i - 1 + l.offset) * rnn.stepSize
                /\ v.start + v.len = (i - 1 + l.offset + l.window) * rnn.stepSize
                /\ ~v.owns

\* A second forward-only run of length three has finished; its third step
\* reused the first step workspace and had its views two timesteps further.
C27_Witness ==
    /\ rnn.pc = "done"
    /\ rruns = 2
    /\ ~rnn.backward
    /\ rnn.seqLen = 3
    /\ Len(invoked) = 3
    /\ invoked[3].ws = invoked[1].ws
    /\ invoked[3].timestep = 2
    /\ \E v \in invoked[3].views : v.start = 3 * rnn.stepSize /\ v.window = 2

\* The records of a name among the first n of the database, the sizes of
\* its chunks summed, and whether those records load the blob fully.
RecordsOf(name, n) == {i \in 1..n : KeyOf(db[i].key) = <<name>>}

RECURSIVE ChunkSum(_, _)
ChunkSum(name, n) ==
    IF n = 0 THEN 0
    ELSE ChunkSum(name, n - 1)
         + (IF n \in RecordsOf(name, n) /\ db[n].kind = "tensor"
            THEN (IF db[n].seg THEN db[n].end - db[n].begin
                  ELSE Prod(db[n].dims))
            ELSE 0)

TensorOnly(name, n) ==
    /\ RecordsOf(name, n) # {}
    /\ \A i \in RecordsOf(name, n) : db[i].kind = "tensor"

SumsToTotal(name, n) ==
    \A i \in RecordsOf(name, n) : ChunkSum(name, n) = Prod(db[i].dims)

FullAfter(name, n) ==
    \E i \in RecordsOf(name, n) :
      db[i].kind # "tensor" \/ ChunkSum(name, i) >= Prod(db[i].dims)

SeenAgain(name, n) ==
    \E i \in RecordsOf(name, n), j \in RecordsOf(name, n) :
      i < j /\ FullAfter(name, i)

\* C28 (as stated): a Load of named output blobs fails with a data-size
\* mismatch if the chunk sizes of a tensor do not sum to its declared total,
\* and fails if a requested blob is not fully loaded or a record of an
\* already fully loaded blob appears again.
C28_LoadFailures ==
    ld.pc = "done" =>
      \A name \in RangeOf(ld.outputs) :
        /\ (TensorOnly(name, Len(db)) /\ ~SumsToTotal(name, Len(db)))
           => ld.result = "mismatch"
        /\ ~FullAfter(name, Len(db)) => ld.result # "ok"
        /\ SeenAgain(name, Len(db)) => ld.result # "ok"

\* C28 (amended): Load reads records until every requested blob is fully
\* loaded.  When the reading ends without an earlier failure, it fails with
\* a data-size mismatch if the chunk sizes read for a tensor do not sum to
\* its declared total; it fails if a requested blob is not fully loaded or
\* a record of an already fully loaded blob is read.
C28_LoadFailuresRead ==
    ld.pc = "done" =>
      \A name \in RangeOf(ld.outputs) :
        /\ (/\ ld.result \notin {"multiple", "nonzero"}
            /\ TensorOnly(name, ld.pos)
            /\ ~SumsToTotal(name, ld.pos))
           => ld.result = "mismatch"
        /\ ~FullAfter(name, ld.pos) => ld.result # "ok"
        /\ SeenAgain(name, ld.pos) => ld.result = "multiple"

\* A load of two blobs ended at the end of the cursor with a data-size
\* mismatch: one of the two chunks of "x" is missing while "y" is loaded.
C28_Witness ==
    /\ ld.pc = "done"
    /\ ld.result = "mismatch"
    /\ ld.outputs = <<"x", "y">>
    /\ ld.pos = Len(db)
    /\ TensorOnly("x", ld.pos)
    /\ ChunkSum("x", ld.pos) = 1
    /\ "y" \in ld.loaded

\* C29: after a Save and a Load of saved names, every loaded blob has the
\* type, the shape and the elements of the blob that was saved, whatever the
\* number of chunks and whatever the blob held before the Load.
C29_SaveLoadRoundTrip ==
    (/\ fromSave
     /\ ld.pc = "done"
     /\ \A name \in RangeOf(ld.outputs) : saved[name] # NoValue)
    => /\ ld.result = "ok"
       /\ \A name \in RangeOf(ld.outputs) :
            /\ dest[name].kind = saved[name].kind
            /\ dest[name].meta = saved[name].meta
            /\ dest[name].dims = saved[name].dims
            /\ dest[name].data = saved[name].data

\* A tensor of three elements saved as three chunks next to another blob
\* was loaded into a blob that held a float tensor of another shape, as the
\* blob that was not requested still does.
C29_Witness ==
    /\ fromSave
    /\ ld.pc = "done"
    /\ ld.result = "ok"
    /\ ld.outputs = <<"x">>
    /\ saved["x"] = TensorBlob("int", <<3>>, <<7, 8, 9>>)
    /\ saved["y"] # NoValue
    /\ Cardinality(RecordsOf("x", Len(db))) = 3
    /\ dest["x"] = saved["x"]
    /\ dest["y"] = TensorBlob("float", <<4>>, <<0, 0, 0, 0>>)

\* C30: the plan runner loads the plan given by --plan and runs it; the
\* exit code is 0 when the plan succeeded and non-zero when a step failed.
C30_ExitCodeReportsFailure ==
    mainpc = "exited" =>
      /\ runResult = "true" => exitCode = "zero"
      /\ runResult \in {"false", "throw"} => exitCode # "zero"

\* C31: RunAt on a chain first issues a stream wait on the event of every
\* parent of the first operator, then invokes the operators of the chain
\* one after the other in chain order, and records the event of the last
\* operator only after the last operator was invoked.
C31_WaitsThenOpsThenRecord ==
    [][\A v \in ChainStarts :
         LET c == ChainFrom(v)
         IN  /\ (wk'[v].pc = "ops" /\ wk[v].pc # "ops") =>
                   /\ wk[v].pc = "wait"
                   /\ wk[v].i = 0
                   /\ wk'[v].i = 1
                   /\ \A p \in parents[Front(c)] : ~outstanding'[p]
             /\ (wk[v].pc = "ops" /\ wk'[v] # wk[v]) =>
                   /\ wk[v].i \in 1..Len(c)
                   /\ wk'[v].i = wk[v].i + 1
                   /\ wk'[v].pc = "ops" => wk[v].i < Len(c)
                   /\ wk'[v].pc = "record" => wk[v].i = Len(c)
             /\ (wk'[v].pc = "record" /\ wk[v].pc # "record") =>
                   wk[v].pc = "ops"
             /\ (nrec'[Back(c)] > nrec[Back(c)]
                 \/ (eventRecorded'[Back(c)] /\ ~eventRecorded[Back(c)])) =>
                   /\ wk[v].pc = "record"
                   /\ wk[v].i = Len(c) + 1]_vars

\* A RunAt on a chain of two operators with a parent on another gpu has
\* waited, invoked both operators and recorded the event of the second.
C31_Witness ==
    \E v \in ChainStarts :
      /\ Len(ChainFrom(v)) = 2
      /\ \E p \in parents[v] : dev[p] # CPU /\ dev[p] # dev[v]
      /\ dev[v] # CPU
      /\ wk[v].pc = "ret"
      /\ wk[v].i = 3
      /\ nrec[Back(ChainFrom(v))] = 1
      /\ outstanding[Back(ChainFrom(v))]

\* The net A -> B -> C ..: every operator reads what the one before wrote,
\* and all are on one device.
LinearNet == \A i \in Ops : parents[i] = (IF i = 1 THEN {} ELSE {i - 1})
SingleDevice == \A i \in Ops : dev[i] = dev[1]

\* C32 (as stated): an event is recorded on the tail of a chain only if a
\* downstream consumer lives on another device or crosses streams; a net
\* whose operators share blobs on a single device runs as one chain and
\* performs no event record.
C32_Original ==
    /\ \A v \in ChainStarts :
         outstanding[Back(ChainFrom(v))] => Children(Back(ChainFrom(v))) # {}
    /\ (LinearNet /\ SingleDevice) =>
         /\ ChainStarts = {1}
         /\ \A e \in Ops : ~outstanding[e]

\* C32 (amended): RunAt records the event of the tail of every chain whose
\* operators were all invoked, whether or not a downstream consumer exists;
\* the record is issued on the device exactly when the chain runs on a gpu
\* stream.  A net whose operators share blobs on a single device runs as
\* one chain in the order A, B, C and records one event, that of C.
C32_TailAlwaysRecorded ==
    /\ []((LinearNet /\ SingleDevice) =>
            /\ ChainStarts = {1}
            /\ ChainFrom(1) = [i \in Ops |-> i]
            /\ \A e \in Ops \ {NumOps} : nrec[e] = 0 /\ ~outstanding[e]
            /\ wk[1].pc = "ret" =>
                 /\ nrec[NumOps] = 1
                 /\ outstanding[NumOps] <=> dev[1] # CPU)
    /\ [][\A v \in ChainStarts :
            (wk[v].pc = "record" /\ wk'[v].pc = "ret") =>
               /\ nrec'[Back(ChainFrom(v))] = nrec[Back(ChainFrom(v))] + 1
               /\ outstanding'[Back(ChainFrom(v))] <=> dev[v] # CPU]_vars

\* The net A -> B -> C on one gpu has run as one chain and the event of C,
\* which has no consumer, is recorded and outstanding.
C32_Witness ==
    /\ LinearNet /\ SingleDevice
    /\ dev[1] # CPU
    /\ wk[1].pc = "ret"
    /\ wk[1].i = NumOps + 1
    /\ Children(NumOps) = {}
    /\ nrec[NumOps] = 1
    /\ outstanding[NumOps]

(***************************************************************************)
(* Claims about the substeps of a step.                                    *)
(***************************************************************************)
\* The substeps that were started in iteration k of p, in order of start
\* (a step of substeps appends nothing else to its trace).
StartedIn(p, k) ==
    LET n == Len(plan[p].subs)
    IN  [i \in 1..n |-> fr[p].trace[n * k + i]]

\* C33: with concurrent substeps, an iteration of the parent in which no
\* substep failed has started every substep exactly once, no two workers
\* ever hold the same substep index, and the iteration ends only when every
\* worker thread has left its loop and was joined.
C33_EachSubstepOnce ==
    /\ [](\A j \in DOMAIN wkr : \A k \in DOMAIN wkr :
            (j # k /\ wkr[j].pc \in {"test", "run"} /\ wkr[k].pc \in {"test", "run"})
                => wkr[j].id # wkr[k].id)
    /\ [][\A p \in Joining :
            (fr'[p].pc # "join") =>
                /\ \A j \in DOMAIN wkr : wkr[j].pc = "exit"
                /\ Len(wkr) = Len(plan[p].subs)
                /\ ~gotFailure =>
                      /\ Len(fr[p].trace) = Len(plan[p].subs) * (fr[p].iter + 1)
                      /\ \A i \in 1..Len(plan[p].subs) :
                            Cardinality({x \in 1..Len(plan[p].subs) :
                                StartedIn(p, fr[p].iter)[x] = plan[p].subs[i]}) = 1
      ]_vars

\* Two iterations without a failure; in the first the worker that fetched
\* index 1 started before the one that fetched index 0.
C33_Witness ==
    /\ ConcurrentMode("R")
    /\ fr["R"].pc = "done" /\ fr["R"].res = "true" /\ fr["R"].iter = 2
    /\ ~gotFailure
    /\ fr["R"].trace = <<"B", "A", "A", "B">>


Sequential == {p \in Steps : plan[p].subs # <<>> /\ ~ConcurrentMode(p)}

\* In the sequential loop of p: the substeps are started one at a time in
\* declaration order, the first at the start of an iteration and each next
\* one when its predecessor has returned; an iteration is complete only
\* after the last; a substep that returns false ends the step with false,
\* nothing further started.
SequentialOrder(p) ==
    LET subs == plan[p].subs
    IN  /\ \A i \in 1..Len(subs) :
              (fr[subs[i]].pc # "enter" /\ fr'[subs[i]].pc = "enter") =>
                  /\ fr'[p].pc = "call" /\ fr'[p].idx = i
                  /\ fr'[p].iter = fr[p].iter
                  /\ IF i = 1 THEN fr[p].pc = "loop"
                     ELSE /\ fr[p].pc = "call" /\ fr[p].idx = i - 1
                          /\ fr[subs[i - 1]].pc = "done"
                          /\ fr[subs[i - 1]].res = "true"
        /\ (fr[p].pc = "loop" /\ fr'[p].pc = "call") =>
              fr'[p].idx = 1 /\ fr'[subs[1]].pc = "enter"
        /\ fr'[p].iter # fr[p].iter =>
              /\ fr[p].pc = "call" /\ fr[p].idx = Len(subs)
              /\ fr[subs[Len(subs)]].res = "true"
              /\ fr'[p].pc = "loop"
        /\ (fr[p].pc = "call" /\ fr'[p] # fr[p] /\ fr[Current(p)].res = "false") =>
              /\ fr'[p].pc = "done" /\ fr'[p].res = "false"
              /\ fr'[p].iter = fr[p].iter /\ fr'[p].trace = fr[p].trace
              /\ \A i \in 1..Len(subs) : fr'[subs[i]].pc = "off"
        /\ fr[p].pc = "done" =>
              \A i \in 1..Len(subs) : fr'[subs[i]] = fr[subs[i]]

\* A substep of p that has returned r is followed by the next substep, or
\* after the last one by the next test of the loop.
GoesOn(p) ==
    IF fr[p].idx < Len(plan[p].subs)
    THEN /\ fr'[p].pc = "call" /\ fr'[p].idx = fr[p].idx + 1
         /\ fr'[plan[p].subs[fr[p].idx + 1]].pc = "enter"
    ELSE fr'[p].pc = "loop" /\ fr'[p].iter = Inc(fr[p].iter)

\* C35 as stated: in sequential mode the substeps run in declaration order,
\* each exactly once in each iteration, except that the first substep that
\* returns false ends the step with false at once.
C35_Original ==
    [][\A p \in Sequential :
          /\ SequentialOrder(p)
          /\ (fr[p].pc = "call" /\ fr'[p] # fr[p] /\ fr[Current(p)].res # "false")
                => GoesOn(p)
      ]_vars

\* C35 (amended): in sequential mode the substeps run in declaration order,
\* none twice in an iteration, and every one in an iteration that is not cut
\* short.  An iteration is cut short when a substep returns false (the step
\* returns false), when a substep throws (the step throws), or when the
\* should_stop_blob of the step reads true after a substep (the step
\* returns true); nothing further is run in any of these cases.
C35_SequentialSubsteps ==
    [][\A p \in Sequential :
          /\ SequentialOrder(p)
          /\ (fr[p].pc = "call" /\ fr'[p] # fr[p]) =>
                LET r == fr[Current(p)].res
                IN  IF r = "true" /\ ~GetShouldStop(p) THEN GoesOn(p)
                    ELSE /\ fr'[p].pc = "done"
                         /\ fr'[p].res = r
                         /\ fr'[p].iter = fr[p].iter
                         /\ fr'[p].trace = fr[p].trace
                         /\ \A i \in 1..Len(plan[p].subs) :
                               fr'[plan[p].subs[i]].pc = "off"
      ]_vars

\* A and B ran in the first iteration; in the second A returned false and
\* the step returned false without starting B again.
C35_Witness ==
    /\ "R" \in Sequential
    /\ plan["R"].subs = <<"A", "B">>
    /\ fr["R"].pc = "done" /\ fr["R"].res = "false" /\ fr["R"].why = "substep"
    /\ fr["R"].iter = 1
    /\ fr["R"].trace = <<"A", "B", "A">>
    /\ fr["B"].pc = "off"


(***************************************************************************)
(* Claims about the Reporter.                                              *)
(***************************************************************************)
\* The reporter thread ends only after done was set, the destructor waits
\* for it, and the report net never runs once the step has returned; a run
\* of the report net that returns false changes nothing but the log.
ReporterJoined ==
    /\ []( /\ rep.th = "exit" => rep.done
           /\ (rep.main \in {"join", "returned"} /\ rep.th # "none") => rep.done
           /\ (StepReturned /\ rep.th # "none") => rep.th = "exit"
           /\ ~rep.late )
    /\ [][ /\ StepReturned => rep'.runs = rep.runs
           /\ rep'.failures # rep.failures =>
                 /\ fr' = fr /\ aborted' = aborted
                 /\ rep'.th = "test" /\ rep'.main = rep.main ]_vars

InForward == ~rnn.grad /\ rnn.pc \in {"loop", "step", "failed", "done"}

\* C37: in a forward run with a backward pass timestep t runs in
\* stepWorkspaces[t] and the list holds at least seqLen elements; without a
\* backward pass timestep t runs in stepWorkspaces[t mod n], n = 2, or 4
\* with an executor, and the list holds at least n.  Across runs the list
\* never shrinks, a workspace of the list stays where it is, and no element
\* gets a workspace allocated twice.
C37_StepWorkspaces ==
    /\ []( /\ InForward =>
                /\ SizeOf(stepWs) >=
                     (IF rnn.backward THEN rnn.seqLen
                      ELSE IF rnn.executor THEN 4 ELSE 2)
                /\ \A i \in 1..Len(invoked) :
                     /\ invoked[i].t = i - 1
                     /\ invoked[i].ws =
                          (IF rnn.backward THEN i - 1
                           ELSE (i - 1) % (IF rnn.executor THEN 4 ELSE 2))
                     /\ stepWs[invoked[i].ws].slot
                     /\ stepWs[invoked[i].ws].exists
           /\ \A w \in StepWsIndices :
                /\ stepWs[w].made <= 1
                /\ stepWs[w].exists => stepWs[w].slot /\ stepWs[w].made = 1
                /\ stepWs[w].slot => \A v \in StepWsIndices : v < w => stepWs[v].slot )
    /\ [][ /\ SizeOf(stepWs') >= SizeOf(stepWs)
           /\ \A w \in StepWsIndices :
                stepWs[w].exists =>
                   stepWs'[w].exists /\ stepWs'[w].made = stepWs[w].made ]_vars

\* The second run: a first run with a backward pass made three step
\* workspaces; this one, with a sequence of one, ran in the first of them
\* and left the list at three.
C37_Witness ==
    /\ rruns = 2 /\ InForward /\ rnn.pc = "done"
    /\ rnn.backward /\ rnn.seqLen = 1
    /\ Len(invoked) = 1 /\ invoked[1].ws = 0
    /\ SizeOf(stepWs) = 3
    /\ \A w \in 0..2 : stepWs[w].exists /\ stepWs[w].made = 1

\* The backward pass is under way or has ended.
InBackward == rnn.grad /\ rnn.pc \in {"gloop", "gdone", "crashed"}

\* The backward steps run so far: timesteps seqLen - 1 downwards, each in
\* the step workspace of its timestep.
BackwardInOrder ==
    \A i \in 1..Len(invoked) :
        /\ invoked[i].t = rnn.seqLen - i
        /\ invoked[i].ws = rnn.seqLen - i
        /\ stepWs[invoked[i].ws].exists

\* The step workspaces that hold a workspace.
Saved == {w \in StepWsIndices : stepWs[w].exists}

LengthsOf(q, off, k) == SumTo(q, off + k) - SumTo(q, off)

\* C39: advance succeeds or fails as a whole.  It fails when the top-level
\* offset is past the limit, or when the offset of the nested domain plus
\* the lengths of the rows of the batch exceeds its limit, and then the
\* offsets of the cursor are what they were; otherwise every offset moves
\* by the size of its domain.
C39_AdvanceAllOrNothing ==
    [][\A t \in Threads :
        (th[t].pc = "captured" /\ th'[t].pc # "captured") =>
            LET lim == Limits(data)
                off == offsets
                total == Min(lim[1] - off[1], th[t].n)
                past == lim[1] < off[1]
                sub == IF past THEN 0 ELSE LengthsOf(data.lens, off[1], total)
            IN  IF past \/ off[2] + sub > lim[2]
                THEN /\ th'[t].pc = "idle" /\ th'[t].res = "throw"
                     /\ offsets' = offsets
                     /\ batches' = batches
                ELSE /\ th'[t].pc = "gather"
                     /\ th'[t].sizes = <<total, sub>>
                     /\ offsets' = <<off[1] + total, off[2] + sub>>
      ]_vars

\* After a batch of one row the values tensor lost a row; the next advance
\* passed the top level, failed in the nested domain and left both offsets
\* where they were.
C39_Witness ==
    /\ offsets = <<1, 1>>
    /\ Limits(data) = <<2, 1>>
    /\ data.lens = <<1, 1>>
    /\ \E t \in Threads : th[t].pc = "idle" /\ th[t].res = "throw"
    /\ Cardinality(batches) = 1


(***************************************************************************)
(* Claims about the net map.                                               *)
(***************************************************************************)
\* C40: between the calls of CreateNet, DeleteNet, RunNet and RunPlan every
\* entry of the net map holds a constructed net, and neither RunNet nor a
\* step of a plan nor the reporter runs a null net.
C40_NetMapHoldsNets ==
    cn.pc = "idle" =>
        /\ \A w \in Workspaces, name \in NetNames : netMap[w][name] # NullNet
        /\ lastNet.res \notin {"ranNull", "reportNull"}


====
